---- MODULE Spec2Model ----
(***************************************************************************)
(* A model of the numerical core of the graphing engine: the epsilon       *)
(* arithmetic of PrecisionManager, GraphViewport with its bounded undo     *)
(* history, the operation-budget classes (OperationCounter,                *)
(* CircuitBreaker, DeterministicTimeout) and AdaptiveSampler.sample.       *)
(*                                                                         *)
(* Numbers are fixed-point: the integer n stands for n / Scale.  Every     *)
(* PrecisionManager result is quantised by normalize(); the model keeps    *)
(* that quantisation (round half to even) with a coarser quantum.          *)
(***************************************************************************)
EXTENDS Integers, Sequences, FiniteSets, TLC

VARIABLES
    viewport,       \* GraphViewport.viewport
    constraints,    \* GraphViewport.constraints
    history,        \* GraphViewport.history
    vpLast,         \* the last GraphViewport call: its name, arguments and outcome
    nOps,           \* number of calls made so far by the environment
    globalCounter,  \* OperationCounter.globalCounter
    registry,       \* OperationCounter.circuitBreakers
    counters,       \* OperationCounter.counters
    cb,             \* a CircuitBreaker: name, maxOperations, operationCount, isTripped
    cbCalls,        \* execute calls made on cb since its construction or reset()
    cbLast,         \* the last CircuitBreaker call and what it did
    test,           \* position and tallies of testOperationCounterDeterminism
    timeout,        \* a DeterministicTimeout: maxOperations, startCount, operationLimit
    tmGhost,        \* what has been counted since the timeout captured its baseline
    wallClock,      \* the wall-clock time
    smp,            \* a sample() call: the sampler's options, fn, domain, options
    points,         \* sample()'s points
    stack,          \* sample()'s stack
    spc,            \* where the sample() call is: "loop", "sort", "done", "threw"
    iterations,     \* iterations of sample()'s loop begun in this call
    earlier,        \* what the sample() calls before this one returned
    leaves,         \* the intervals sample() has closed with addPoints, in order
    operationCount, \* PrecisionManager.operationCount
    pm,             \* PrecisionManager calls: the operands, the last call's outcome
    ms,             \* a marchingSquares() call: the grid of fn and the options
    segments,       \* marchingSquares()'s segments
    cell,           \* the number of cells its scan has visited, in row-major order
    mpc,            \* where the marchingSquares() call is: "scan", "done"
    pmConfig,       \* PrecisionManager.config
    decimal,        \* the settings of Decimal: precision and rounding
    pcLast,         \* the last call on the configured PrecisionManager
    proof,          \* a NumericalProofSystem call: the routine and its arguments
    prun,           \* its locals, where it is, and what it returned
    store,          \* useViewportStore's state: the GraphViewport it holds
    stLast,         \* the last call on the store, and the viewport current before it
    tr              \* a linear transform, a point, and what forward and inverse gave

vpVars == <<viewport, constraints, history, vpLast>>

budgetVars == <<globalCounter, registry, counters, cb, cbCalls, cbLast, test,
                timeout, tmGhost, wallClock>>

samplerVars == <<smp, points, stack, spc, iterations, earlier, leaves>>

precisionVars == <<operationCount, pm>>

marchVars == <<ms, segments, cell, mpc>>

configVars == <<pmConfig, decimal, pcLast>>

proofVars == <<proof, prun>>

storeVars == <<store, stLast>>

transformVars == <<tr>>

vars == <<viewport, constraints, history, vpLast, nOps, globalCounter, registry,
          counters, cb, cbCalls, cbLast, test, timeout, tmGhost, wallClock,
          smp, points, stack, spc, iterations, earlier, leaves, operationCount,
          pm, ms, segments, cell, mpc,
          pmConfig, decimal, pcLast,
          proof, prun,
          store, stLast, tr>>

----------------------------------------------------------------------------
(* PrecisionManager                                                        *)

\* Quanta per unit: normalize() quantises to config.decimalPlaces places.
Scale == 10

\* config.epsilon, the comparison tolerance: below one quantum, so two
\* fixed-point values are within epsilon exactly when they are equal.
Epsilon == 1

Abs(n) == IF n < 0 THEN -n ELSE n

\* n / d rounded to the nearest integer, ties to the even one
\* (ROUND_HALF_EVEN), for d # 0.
RoundHalfEven(n, d) ==
    LET nn == IF d < 0 THEN -n ELSE n
        dd == Abs(d)
        q  == nn \div dd
        r  == nn % dd
    IN  IF 2 * r < dd THEN q
        ELSE IF 2 * r > dd THEN q + 1
        ELSE IF q % 2 = 0 THEN q ELSE q + 1

Add(a, b) == a + b

Subtract(a, b) == a - b

Multiply(a, b) == RoundHalfEven(a * b, Scale)

\* divide() throws a DeterminismError when |b| < epsilon.
DivideThrows(b) == Abs(b) < Epsilon

Divide(a, b) == RoundHalfEven(a * Scale, b)

Compare(a, b) ==
    IF Abs(a - b) < Epsilon THEN 0
    ELSE IF a < b THEN -1 ELSE 1

GreaterThan(a, b) == Compare(a, b) > 0

LessThan(a, b) == Compare(a, b) < 0

\* (1 - t) * a + t * b
Lerp(a, b, t) ==
    Add(Multiply(Subtract(Scale, t), a), Multiply(t, b))

Midpoint(a, b) == Lerp(a, b, Scale \div 2)

\* compare() with the tolerance passed.
CompareWith(a, b, epsilon) ==
    IF Abs(a - b) < epsilon THEN 0
    ELSE IF a < b THEN -1 ELSE 1

----------------------------------------------------------------------------
(* PrecisionManager on every number: a number is a record, of kind "value" *)
(* with its quanta y, or "NaN", "Infinity", "-Infinity".  A call either    *)
(* throws a DeterminismError or returns a value, after ops increments of   *)
(* PrecisionManager.operationCount (its own and those of the calls it      *)
(* makes).  pow and the series of sin, cos and atan2 are not modelled.     *)

\* The largest finite number, in quanta: beyond it toNumber() gives
\* +/-Infinity.
MaxNumber == 40000

Num(n) == [kind |-> "value", y |-> n]

NaN == [kind |-> "NaN", y |-> 0]

PosInfinity == [kind |-> "Infinity", y |-> 0]

NegInfinity == [kind |-> "-Infinity", y |-> 0]

\* Number.isFinite
IsFinite(v) == v.kind = "value"

\* v < 0 and v <= 0 (both false for NaN)
IsNegative(v) == v.kind = "-Infinity" \/ (v.kind = "value" /\ v.y < 0)

NotPositive(v) == v.kind = "-Infinity" \/ (v.kind = "value" /\ v.y <= 0)

Thrown(ops) == [threw |-> TRUE, value |-> NaN, ops |-> ops]

Returned(value, ops) == [threw |-> FALSE, value |-> value, ops |-> ops]

\* The outcome r of a nested call, after n increments made before it.
After(n, r) == [r EXCEPT !.ops = r.ops + n]

\* Decimal.toNumber()
ToNumber(d) ==
    IF d.kind = "value" /\ Abs(d.y) > MaxNumber
    THEN IF d.y > 0 THEN PosInfinity ELSE NegInfinity
    ELSE d

PmNormalize(value) ==
    IF ~IsFinite(value) THEN Thrown(1) ELSE Returned(value, 1)

FinalizeResult(result) ==
    LET value == ToNumber(result)
    IN  IF ~IsFinite(value) THEN Thrown(0) ELSE PmNormalize(value)

\* validateInputs(a, b) throws.
ValidateInputsThrows(a, b) == ~IsFinite(a) \/ ~IsFinite(b)

PmAdd(a, b) ==
    IF ValidateInputsThrows(a, b) THEN Thrown(1)
    ELSE After(1, FinalizeResult(Num(Add(a.y, b.y))))

PmSubtract(a, b) ==
    IF ValidateInputsThrows(a, b) THEN Thrown(1)
    ELSE After(1, FinalizeResult(Num(Subtract(a.y, b.y))))

PmMultiply(a, b) ==
    IF ValidateInputsThrows(a, b) THEN Thrown(1)
    ELSE After(1, FinalizeResult(Num(Multiply(a.y, b.y))))

PmDivide(a, b) ==
    IF ValidateInputsThrows(a, b) THEN Thrown(1)
    ELSE IF DivideThrows(b.y) THEN Thrown(1)
    ELSE After(1, FinalizeResult(Num(Divide(a.y, b.y))))

\* The square root of n quanta, in quanta, to the nearest quantum.
SqrtOf(n) ==
    LET m == n * Scale
        r == CHOOSE k \in 0..m : k * k <= m /\ m < (k + 1) * (k + 1)
    IN  IF m - r * r > r THEN r + 1 ELSE r

\* Decimal.sqrt() of a value that is not negative.
DecimalSqrt(d) ==
    IF d.kind = "value" THEN Num(SqrtOf(d.y)) ELSE d

PmSqrt(value) ==
    IF IsNegative(value) THEN Thrown(1)
    ELSE After(1, FinalizeResult(DecimalSqrt(value)))

\* The natural logarithms of the operands used, to the nearest quantum:
\* ln 0.5, ln 1, ln 2, ln 4000.
LnTable ==
    (Scale \div 2 :> -7) @@ (Scale :> 0) @@ (2 * Scale :> 7) @@ (MaxNumber :> 83)

\* Decimal.ln() of a value that is positive.
DecimalLn(d) ==
    IF d.kind = "value" THEN Num(LnTable[d.y]) ELSE d

\* Decimal.dividedBy
DecimalDividedBy(n, d) ==
    IF n.kind = "NaN" \/ d.kind = "NaN" THEN NaN
    ELSE IF ~IsFinite(n) /\ ~IsFinite(d) THEN NaN
    ELSE IF ~IsFinite(d) THEN Num(0)
    ELSE IF d.y = 0 /\ IsFinite(n) /\ n.y = 0 THEN NaN
    ELSE IF ~IsFinite(n) \/ d.y = 0
    THEN IF (IsNegative(n) /\ d.y >= 0) \/ (~IsNegative(n) /\ d.y < 0)
         THEN NegInfinity ELSE PosInfinity
    ELSE Num(RoundHalfEven(n.y * Scale, d.y))

PmLn(value) ==
    IF NotPositive(value) THEN Thrown(1)
    ELSE After(1, FinalizeResult(DecimalLn(value)))

PmLog(value, base) ==
    IF NotPositive(value) THEN Thrown(1)
    ELSE IF NotPositive(base) \/ base = Num(Scale) THEN Thrown(1)
    ELSE After(1, FinalizeResult(
                     DecimalDividedBy(DecimalLn(value), DecimalLn(base))))

\* The optional epsilon argument.
NoEpsilon == [given |-> FALSE, value |-> 0]

\* epsilon ?? config.epsilon
EpsilonOr(epsilon) == IF epsilon.given THEN epsilon.value ELSE Epsilon

\* compare() returning 0 at a distance of exactly epsilon too.
PmCompareInclusive(a, b, epsilon) ==
    IF ~IsFinite(a) \/ ~IsFinite(b) THEN Thrown(1)
    ELSE Returned(CompareWith(a.y, b.y, EpsilonOr(epsilon) + 1), 1)

PmCompare(a, b, epsilon) ==
    IF ~IsFinite(a) \/ ~IsFinite(b) THEN Thrown(1)
    ELSE Returned(CompareWith(a.y, b.y, EpsilonOr(epsilon)), 1)

PmEquals(a, b, epsilon) ==
    LET c == PmCompare(a, b, epsilon)
    IN  IF c.threw THEN c ELSE Returned(c.value = 0, c.ops)

PmGreaterThan(a, b, epsilon) ==
    LET c == PmCompare(a, b, epsilon)
    IN  IF c.threw THEN c ELSE Returned(c.value > 0, c.ops)

PmLessThan(a, b, epsilon) ==
    LET c == PmCompare(a, b, epsilon)
    IN  IF c.threw THEN c ELSE Returned(c.value < 0, c.ops)

PmClamp(value, min, max) ==
    LET lt == PmLessThan(value, min, NoEpsilon)
        gt == PmGreaterThan(value, max, NoEpsilon)
    IN  IF lt.threw THEN After(1, lt)
        ELSE IF lt.value THEN After(1 + lt.ops, PmNormalize(min))
        ELSE IF gt.threw THEN After(1 + lt.ops, gt)
        ELSE IF gt.value THEN After(1 + lt.ops + gt.ops, PmNormalize(max))
        ELSE After(1 + lt.ops + gt.ops, PmNormalize(value))

\* t < 0 || t > 1 (false for NaN)
OutsideUnit(t) ==
    \/ t.kind \in {"Infinity", "-Infinity"}
    \/ t.kind = "value" /\ (t.y < 0 \/ t.y > Scale)

PmLerp(a, b, t) ==
    LET oneMinusT == PmSubtract(Num(Scale), t)
        term1 == PmMultiply(oneMinusT.value, a)
        term2 == PmMultiply(t, b)
    IN  IF ValidateInputsThrows(a, b) THEN Thrown(1)
        ELSE IF OutsideUnit(t) THEN Thrown(1)
        ELSE IF oneMinusT.threw THEN After(1, oneMinusT)
        ELSE IF term1.threw THEN After(1 + oneMinusT.ops, term1)
        ELSE IF term2.threw THEN After(1 + oneMinusT.ops + term1.ops, term2)
        ELSE After(1 + oneMinusT.ops + term1.ops + term2.ops,
                   PmAdd(term1.value, term2.value))

PmMidpoint(a, b) == PmLerp(a, b, Num(Scale \div 2))

UnaryOperations == {"normalize", "sqrt", "ln"}

BinaryOperations == {"add", "subtract", "multiply", "divide", "log", "midpoint"}

CompareOperations == {"compare", "equals", "greaterThan", "lessThan"}

TernaryOperations == {"clamp", "lerp"}

\* The call PrecisionManager.op(a, b, c), with as many of the operands as
\* op takes; epsilon is the last argument of the comparisons.
PrecisionCall(op, a, b, c, epsilon) ==
    CASE op = "normalize" -> PmNormalize(a)
      [] op = "sqrt" -> PmSqrt(a)
      [] op = "ln" -> PmLn(a)
      [] op = "add" -> PmAdd(a, b)
      [] op = "subtract" -> PmSubtract(a, b)
      [] op = "multiply" -> PmMultiply(a, b)
      [] op = "divide" -> PmDivide(a, b)
      [] op = "log" -> PmLog(a, b)
      [] op = "midpoint" -> PmMidpoint(a, b)
      [] op = "compare" -> PmCompare(a, b, epsilon)
      [] op = "equals" -> PmEquals(a, b, epsilon)
      [] op = "greaterThan" -> PmGreaterThan(a, b, epsilon)
      [] op = "lessThan" -> PmLessThan(a, b, epsilon)
      [] op = "clamp" -> PmClamp(a, b, c)
      [] op = "lerp" -> PmLerp(a, b, c)

\* The operands a, b, c before any call on them.
NoCall(a, b, c) ==
    [a |-> a, b |-> b, c |-> c, op |-> "", epsilon |-> NoEpsilon,
     threw |-> FALSE, value |-> NaN]

\* One call on the operands: the outcome is recorded and operationCount
\* has advanced; nothing else is written.
CallPrecision(op, epsilon) ==
    LET r == PrecisionCall(op, pm.a, pm.b, pm.c, epsilon)
    IN  /\ operationCount' = operationCount + r.ops
        /\ pm' = [pm EXCEPT !.op = op, !.epsilon = epsilon,
                             !.threw = r.threw, !.value = r.value]

----------------------------------------------------------------------------
(* The configuration of PrecisionManager.  The sections above keep the     *)
(* start-up configuration; here a number is an integer count of            *)
(* thousandths, the precision of Decimal is a number of significant        *)
(* digits, and decimalPlaces a number of digits after the point.           *)

\* Digits after the point that a number of this section has.
FractionDigits == 3

\* defaultConfig: mode, roundingMode and decimalPlaces.
DefaultConfig ==
    [mode |-> "decimal", roundingMode |-> "ROUND_HALF_EVEN", decimalPlaces |-> 30]

\* Decimal.set({ precision: 30, rounding: Decimal.ROUND_HALF_EVEN }) of the
\* module's initialisation.
DecimalAtStartup == [precision |-> 30, rounding |-> "ROUND_HALF_EVEN"]

RECURSIVE PowerOfTen(_)
PowerOfTen(k) == IF k <= 0 THEN 1 ELSE 10 * PowerOfTen(k - 1)

\* The number of decimal digits of n > 0.
RECURSIVE DigitsOf(_)
DigitsOf(n) == IF n < 10 THEN 1 ELSE 1 + DigitsOf(n \div 10)

\* n rounded to a multiple of unit in the rounding mode.
RoundTo(n, unit, rounding) ==
    IF rounding = "ROUND_DOWN"
    THEN (IF n >= 0 THEN n \div unit ELSE -((-n) \div unit)) * unit
    ELSE RoundHalfEven(n, unit) * unit

\* A Decimal result kept to `precision` significant digits.
ToSignificant(n, precision, rounding) ==
    IF n = 0 \/ DigitsOf(Abs(n)) <= precision THEN n
    ELSE RoundTo(n, PowerOfTen(DigitsOf(Abs(n)) - precision), rounding)

\* decimal.toDecimalPlaces(decimalPlaces, rounding)
ToDecimalPlaces(n, decimalPlaces, rounding) ==
    IF decimalPlaces >= FractionDigits THEN n
    ELSE RoundTo(n, PowerOfTen(FractionDigits - decimalPlaces), rounding)

\* normalize() under a configuration.
NormalizeUnder(cfg, n) ==
    IF cfg.mode = "decimal"
    THEN ToDecimalPlaces(n, cfg.decimalPlaces, cfg.roundingMode)
    ELSE n

\* add(a, b) under a configuration and settings of Decimal: the sum is a
\* Decimal of the working precision, finalizeResult() normalizes it.
AddUnder(cfg, dec, a, b) ==
    NormalizeUnder(cfg, ToSignificant(a + b, dec.precision, dec.rounding))

\* validateConfig(): the settings of Decimal follow the configuration.
ValidateConfig(cfg) ==
    [precision |-> cfg.decimalPlaces, rounding |-> cfg.roundingMode]

ConfigCall(op, a, b, result) == [op |-> op, a |-> a, b |-> b, result |-> result]

\* configure(overrides)
Configure(overrides) ==
    LET merged == [f \in DOMAIN pmConfig |->
                      IF f \in DOMAIN overrides THEN overrides[f] ELSE pmConfig[f]]
    IN  /\ pmConfig' = merged
        /\ decimal' = ValidateConfig(merged)
        /\ pcLast' = ConfigCall("configure", 0, 0, 0)

\* reset()
ConfigReset ==
    /\ pmConfig' = DefaultConfig
    /\ UNCHANGED decimal
    /\ pcLast' = ConfigCall("reset", 0, 0, 0)

\* add(a, b)
ConfiguredAdd(a, b) ==
    /\ pcLast' = ConfigCall("add", a, b, AddUnder(pmConfig, decimal, a, b))
    /\ UNCHANGED <<pmConfig, decimal>>

----------------------------------------------------------------------------
(* GraphViewport                                                           *)

maxHistorySize == 50

\* The literals of the source, in quanta.
Two == 2 * Scale
BaseWidth == 20 * Scale

DefaultViewport ==
    [xMin |-> -10 * Scale, xMax |-> 10 * Scale,
     yMin |-> -10 * Scale, yMax |-> 10 * Scale, pixelRatio |-> 1]

Width(v) == Subtract(v.xMax, v.xMin)

Height(v) == Subtract(v.yMax, v.yMin)

Center(v) == [x |-> Midpoint(v.xMin, v.xMax), y |-> Midpoint(v.yMin, v.yMax)]

SwapX(v) ==
    IF GreaterThan(v.xMin, v.xMax)
    THEN [v EXCEPT !.xMin = v.xMax, !.xMax = v.xMin] ELSE v

SwapY(v) ==
    IF GreaterThan(v.yMin, v.yMax)
    THEN [v EXCEPT !.yMin = v.yMax, !.yMax = v.yMin] ELSE v

\* Re-centre the x range to the width w.
RecentreX(v, w) ==
    LET centerX == Midpoint(v.xMin, v.xMax)
    IN  [v EXCEPT !.xMin = Subtract(centerX, Divide(w, Two)),
                  !.xMax = Add(centerX, Divide(w, Two))]

RecentreY(v, h) ==
    LET centerY == Midpoint(v.yMin, v.yMax)
    IN  [v EXCEPT !.yMin = Subtract(centerY, Divide(h, Two)),
                  !.yMax = Add(centerY, Divide(h, Two))]

EnforceConstraints(v, c) ==
    LET v1 == SwapX(v)
        v2 == SwapY(v1)
        v3 == IF LessThan(Width(v2), c.minXRange)
              THEN RecentreX(v2, c.minXRange) ELSE v2
        v4 == IF LessThan(Height(v3), c.minYRange)
              THEN RecentreY(v3, c.minYRange) ELSE v3
        v5 == IF GreaterThan(Width(v4), c.maxXRange)
              THEN RecentreX(v4, c.maxXRange) ELSE v4
        v6 == IF GreaterThan(Height(v5), c.maxYRange)
              THEN RecentreY(v5, c.maxYRange) ELSE v5
    IN  v6

\* saveToHistory() without the eviction of the oldest entry.
SaveToHistoryNoShift(h, v) == Append(h, v)

SaveToHistory(h, v) ==
    LET pushed == Append(h, v)
    IN  IF Len(pushed) > maxHistorySize THEN Tail(pushed) ELSE pushed

NoCenter == [given |-> FALSE, x |-> 0, y |-> 0]

Call(op, ret, factor, center) ==
    [op |-> op, ret |-> ret, factor |-> factor, center |-> center]

\* pan() recording the state before enforceConstraints() has run.
PanSavingFirst(dx, dy) ==
    LET moved == [viewport EXCEPT !.xMin = Add(viewport.xMin, dx),
                                  !.xMax = Add(viewport.xMax, dx),
                                  !.yMin = Add(viewport.yMin, dy),
                                  !.yMax = Add(viewport.yMax, dy)]
    IN  /\ viewport' = EnforceConstraints(moved, constraints)
        /\ history' = SaveToHistory(history, moved)
        /\ vpLast' = Call("pan", "ok", 0, NoCenter)

Pan(dx, dy) ==
    LET moved == [viewport EXCEPT !.xMin = Add(viewport.xMin, dx),
                                  !.xMax = Add(viewport.xMax, dx),
                                  !.yMin = Add(viewport.yMin, dy),
                                  !.yMax = Add(viewport.yMax, dy)]
        v == EnforceConstraints(moved, constraints)
    IN  /\ viewport' = v
        /\ history' = SaveToHistory(history, v)
        /\ vpLast' = Call("pan", "ok", 0, NoCenter)

\* pan(dx, dy) on any numbers: the four assignments run in order, and the
\* first PrecisionManager.add to throw ends the call, what was assigned
\* before it staying assigned.
PanNumbers(dx, dy) ==
    LET xMin == PmAdd(Num(viewport.xMin), dx)
        xMax == PmAdd(Num(viewport.xMax), dx)
        yMin == PmAdd(Num(viewport.yMin), dy)
        yMax == PmAdd(Num(viewport.yMax), dy)
    IN  IF xMin.threw
        THEN /\ UNCHANGED <<viewport, history>>
             /\ vpLast' = Call("pan", "throw", 0, NoCenter)
        ELSE IF xMax.threw
        THEN /\ viewport' = [viewport EXCEPT !.xMin = xMin.value.y]
             /\ UNCHANGED history
             /\ vpLast' = Call("pan", "throw", 0, NoCenter)
        ELSE IF yMin.threw
        THEN /\ viewport' = [viewport EXCEPT !.xMin = xMin.value.y,
                                             !.xMax = xMax.value.y]
             /\ UNCHANGED history
             /\ vpLast' = Call("pan", "throw", 0, NoCenter)
        ELSE IF yMax.threw
        THEN /\ viewport' = [viewport EXCEPT !.xMin = xMin.value.y,
                                             !.xMax = xMax.value.y,
                                             !.yMin = yMin.value.y]
             /\ UNCHANGED history
             /\ vpLast' = Call("pan", "throw", 0, NoCenter)
        ELSE Pan(dx.y, dy.y)

\* zoom() checking the minimum ranges only.
ZoomRejectsMinOnly(newWidth, newHeight, c) ==
    \/ LessThan(newWidth, c.minXRange)
    \/ LessThan(newHeight, c.minYRange)

\* The early returns of zoom(), given the new width and height.
ZoomRejects(newWidth, newHeight, c) ==
    \/ LessThan(newWidth, c.minXRange)
    \/ LessThan(newHeight, c.minYRange)
    \/ GreaterThan(newWidth, c.maxXRange)
    \/ GreaterThan(newHeight, c.maxYRange)

ZoomLevelRejects(newWidth, c) ==
    GreaterThan(Divide(BaseWidth, newWidth), c.maxZoomLevel)

Zoomed(v, zoomCenter, newWidth, newHeight) ==
    [v EXCEPT !.xMin = Subtract(zoomCenter.x, Divide(newWidth, Two)),
              !.xMax = Add(zoomCenter.x, Divide(newWidth, Two)),
              !.yMin = Subtract(zoomCenter.y, Divide(newHeight, Two)),
              !.yMax = Add(zoomCenter.y, Divide(newHeight, Two))]

Zoom(factor, center) ==
    LET zoomCenter == IF center.given THEN [x |-> center.x, y |-> center.y]
                      ELSE Center(viewport)
    IN  IF DivideThrows(factor)
        THEN /\ UNCHANGED <<viewport, history>>
             /\ vpLast' = Call("zoom", "throw", factor, center)
        ELSE
          LET newWidth == Divide(Width(viewport), factor)
              newHeight == Divide(Height(viewport), factor)
          IN  IF ZoomRejects(newWidth, newHeight, constraints)
              THEN /\ UNCHANGED <<viewport, history>>
                   /\ vpLast' = Call("zoom", "noop", factor, center)
              ELSE IF DivideThrows(newWidth)
              THEN /\ UNCHANGED <<viewport, history>>
                   /\ vpLast' = Call("zoom", "throw", factor, center)
              ELSE IF ZoomLevelRejects(newWidth, constraints)
              THEN /\ UNCHANGED <<viewport, history>>
                   /\ vpLast' = Call("zoom", "noop", factor, center)
              ELSE
                LET v == EnforceConstraints(
                            Zoomed(viewport, zoomCenter, newWidth, newHeight),
                            constraints)
                IN  /\ viewport' = v
                    /\ history' = SaveToHistory(history, v)
                    /\ vpLast' = Call("zoom", "ok", factor, center)

\* newViewport is a partial viewport: a function from some field names.
Merge(v, newViewport) ==
    [f \in DOMAIN v |->
        IF f \in DOMAIN newViewport THEN newViewport[f] ELSE v[f]]

SetViewport(newViewport) ==
    LET v == EnforceConstraints(Merge(viewport, newViewport), constraints)
    IN  /\ viewport' = v
        /\ history' = SaveToHistory(history, v)
        /\ vpLast' = Call("setViewport", "ok", 0, NoCenter)

MinOf(S) == CHOOSE m \in S : \A n \in S : m <= n

MaxOf(S) == CHOOSE m \in S : \A n \in S : m >= n

FitToPoints(fitPoints, padding) ==
    IF Len(fitPoints) = 0
    THEN /\ UNCHANGED <<viewport, history>>
         /\ vpLast' = Call("fitToPoints", "noop", 0, NoCenter)
    ELSE
      LET xs == {fitPoints[i].x : i \in 1..Len(fitPoints)}
          ys == {fitPoints[i].y : i \in 1..Len(fitPoints)}
          xMin == MinOf(xs)
          xMax == MaxOf(xs)
          yMin == MinOf(ys)
          yMax == MaxOf(ys)
          width == Subtract(xMax, xMin)
          height == Subtract(yMax, yMin)
          fitted == [viewport EXCEPT
                       !.xMin = Subtract(xMin, Multiply(width, padding)),
                       !.xMax = Add(xMax, Multiply(width, padding)),
                       !.yMin = Subtract(yMin, Multiply(height, padding)),
                       !.yMax = Add(yMax, Multiply(height, padding))]
          v == EnforceConstraints(fitted, constraints)
      IN  /\ viewport' = v
          /\ history' = SaveToHistory(history, v)
          /\ vpLast' = Call("fitToPoints", "ok", 0, NoCenter)

Reset ==
    LET v == [DefaultViewport EXCEPT !.pixelRatio = viewport.pixelRatio]
    IN  /\ viewport' = v
        /\ history' = SaveToHistory(history, v)
        /\ vpLast' = Call("reset", "ok", 0, NoCenter)

\* undo() popping a single entry: it restores the current state.
UndoPopsOnce ==
    IF Len(history) <= 1
    THEN /\ UNCHANGED <<viewport, history>>
         /\ vpLast' = Call("undo", "false", 0, NoCenter)
    ELSE
      LET popped == SubSeq(history, 1, Len(history) - 1)
          previous == history[Len(history)]
      IN  /\ viewport' = previous
          /\ history' = SaveToHistory(popped, previous)
          /\ vpLast' = Call("undo", "true", 0, NoCenter)

Undo ==
    IF Len(history) <= 1
    THEN /\ UNCHANGED <<viewport, history>>
         /\ vpLast' = Call("undo", "false", 0, NoCenter)
    ELSE
      LET popped == SubSeq(history, 1, Len(history) - 2)
          previous == history[Len(history) - 1]
      IN  /\ viewport' = previous
          /\ history' = SaveToHistory(popped, previous)
          /\ vpLast' = Call("undo", "true", 0, NoCenter)

----------------------------------------------------------------------------
(* CoordinateTransformer.createLinearTransform                             *)

\* A point forward or inverse returned, or the throw that ended the call.
PointOf(x, y) == [threw |-> x.threw \/ y.threw, x |-> x.value, y |-> y.value]

\* forward(point) of createLinearTransform(scale). A PrecisionManager call
\* that threw hands NaN on, and the call around it throws on that.
Forward(scale, point) ==
    PointOf(PmAdd(PmMultiply(scale.scaleX, point.x).value, scale.offsetX),
            PmAdd(PmMultiply(scale.scaleY, point.y).value, scale.offsetY))

\* inverse(point) dividing before it takes the offset away.
InverseDividingFirst(scale, point) ==
    PointOf(PmSubtract(PmDivide(point.x, scale.scaleX).value, scale.offsetX),
            PmSubtract(PmDivide(point.y, scale.scaleY).value, scale.offsetY))

\* inverse(point) of createLinearTransform(scale)
Inverse(scale, point) ==
    PointOf(PmDivide(PmSubtract(point.x, scale.offsetX).value, scale.scaleX),
            PmDivide(PmSubtract(point.y, scale.offsetY).value, scale.scaleY))

\* jacobian() of createLinearTransform(scale)
Jacobian(scale) == PmMultiply(scale.scaleX, scale.scaleY)

NoPoint == [threw |-> FALSE, x |-> NaN, y |-> NaN]

\* const forward = transform.forward(point)
TransformForward ==
    /\ tr.pc = "start"
    /\ tr' = [tr EXCEPT !.forward = Forward(tr.scale, tr.point),
                        !.pc = "forward"]

\* const back = transform.inverse(forward)
TransformInverse ==
    /\ tr.pc = "forward"
    /\ ~tr.forward.threw
    /\ tr' = [tr EXCEPT !.back = Inverse(tr.scale, tr.forward),
                        !.pc = "inverse"]

----------------------------------------------------------------------------
(* useViewportStore                                                        *)

\* The constructor's default constraints: 1e-10 is below one quantum, and
\* 1e12 is above every number of the model.
DefaultConstraints ==
    [minXRange |-> 0, minYRange |-> 0,
     maxXRange |-> MaxNumber, maxYRange |-> MaxNumber,
     maxZoomLevel |-> MaxNumber]

\* new GraphViewport(initialViewport): an object with its three fields.
NewGraphViewport(initialViewport) ==
    LET v == Merge(DefaultViewport, initialViewport)
    IN  [viewport |-> v, constraints |-> DefaultConstraints,
         history |-> SaveToHistory(<< >>, v)]

\* What a method call on the object g did: whether it threw, what it
\* returned, and the object after it.
Did(threw, ret, g) == [threw |-> threw, ret |-> ret, g |-> g]

\* g.pan(dx, dy)
PanOf(g, dx, dy) ==
    LET moved == [g.viewport EXCEPT !.xMin = Add(g.viewport.xMin, dx),
                                    !.xMax = Add(g.viewport.xMax, dx),
                                    !.yMin = Add(g.viewport.yMin, dy),
                                    !.yMax = Add(g.viewport.yMax, dy)]
        v == EnforceConstraints(moved, g.constraints)
    IN  Did(FALSE, "ok",
            [g EXCEPT !.viewport = v, !.history = SaveToHistory(g.history, v)])

\* g.zoom(factor, center)
ZoomOf(g, factor, center) ==
    LET zoomCenter == IF center.given THEN [x |-> center.x, y |-> center.y]
                      ELSE Center(g.viewport)
    IN  IF DivideThrows(factor) THEN Did(TRUE, "throw", g)
        ELSE
          LET newWidth == Divide(Width(g.viewport), factor)
              newHeight == Divide(Height(g.viewport), factor)
          IN  IF ZoomRejects(newWidth, newHeight, g.constraints)
              THEN Did(FALSE, "noop", g)
              ELSE IF DivideThrows(newWidth) THEN Did(TRUE, "throw", g)
              ELSE IF ZoomLevelRejects(newWidth, g.constraints)
              THEN Did(FALSE, "noop", g)
              ELSE
                LET v == EnforceConstraints(
                            Zoomed(g.viewport, zoomCenter, newWidth, newHeight),
                            g.constraints)
                IN  Did(FALSE, "ok",
                        [g EXCEPT !.viewport = v,
                                  !.history = SaveToHistory(g.history, v)])

\* g.reset()
ResetOf(g) ==
    LET v == [DefaultViewport EXCEPT !.pixelRatio = g.viewport.pixelRatio]
    IN  Did(FALSE, "ok",
            [g EXCEPT !.viewport = v, !.history = SaveToHistory(g.history, v)])

\* g.undo()
UndoOf(g) ==
    IF Len(g.history) <= 1 THEN Did(FALSE, "false", g)
    ELSE
      LET popped == SubSeq(g.history, 1, Len(g.history) - 2)
          previous == g.history[Len(g.history) - 1]
      IN  Did(FALSE, "true",
              [g EXCEPT !.viewport = previous,
                        !.history = SaveToHistory(popped, previous)])

\* A call on the store: its name, what the method of the new GraphViewport
\* returned, and state.viewport.current before the call.
StoreCall(op, ret, before) == [op |-> op, ret |-> ret, before |-> before]

\* set(fn) where fn hands did.g back as the new viewport; a throw inside fn
\* leaves the state as it was.
SetFrom(op, did) ==
    /\ store' = IF did.threw THEN store ELSE [store EXCEPT !.viewport = did.g]
    /\ stLast' = StoreCall(op, did.ret, store.viewport.viewport)

\* The store's pan(dx, dy).
StorePan(dx, dy) ==
    SetFrom("pan", PanOf(NewGraphViewport(store.viewport.viewport), dx, dy))

\* The store's zoom(factor, center).
StoreZoom(factor, center) ==
    SetFrom("zoom",
            ZoomOf(NewGraphViewport(store.viewport.viewport), factor, center))

\* The store's reset().
StoreReset ==
    SetFrom("reset", ResetOf(NewGraphViewport(store.viewport.viewport)))

\* The store's undo(): the state is kept unless undo() of the new
\* GraphViewport succeeded.
StoreUndo ==
    LET did == UndoOf(NewGraphViewport(store.viewport.viewport))
        success == did.ret = "true"
    IN  /\ store' = IF success THEN [store EXCEPT !.viewport = did.g] ELSE store
        /\ stLast' = StoreCall("undo", did.ret, store.viewport.viewport)

----------------------------------------------------------------------------
(* OperationCounter, CircuitBreaker, DeterministicTimeout                  *)

\* OperationCounter.reset()
CounterReset ==
    /\ globalCounter' = 0
    /\ counters' = {}
    /\ registry' = {}

\* new CircuitBreaker(name, maxOperations)
NewCircuitBreaker(name, maxOperations) ==
    [name |-> name, maxOperations |-> maxOperations,
     operationCount |-> 0, isTripped |-> FALSE]

\* registerCircuitBreaker() handing out a breaker that keeps the counts of
\* the one in use.
RegisterCircuitBreakerReusing(config) ==
    /\ registry' = {r \in registry : r.name # config.name} \cup {config}
    /\ cb' = [cb EXCEPT !.name = config.name,
                        !.maxOperations = config.maxOperations]

\* OperationCounter.registerCircuitBreaker(config)
RegisterCircuitBreaker(config) ==
    /\ registry' = {r \in registry : r.name # config.name} \cup {config}
    /\ cb' = NewCircuitBreaker(config.name, config.maxOperations)

NoContext == [breaker |-> "", maxOperations |-> 0, actualOperations |-> 0]

Executed(invoked, outcome, hasFallback, context) ==
    [op |-> "execute", invoked |-> invoked, outcome |-> outcome,
     hasFallback |-> hasFallback, context |-> context]

\* execute() counting only the calls whose fn returned.
ExecuteCountingReturns(fn, hasFallback) ==
    LET count == cb.operationCount + 1
    IN  IF count > cb.maxOperations
        THEN /\ cb' = [cb EXCEPT !.operationCount = count, !.isTripped = TRUE]
             /\ UNCHANGED globalCounter
             /\ cbLast' = IF hasFallback
                          THEN Executed(FALSE, "fallback", TRUE, NoContext)
                          ELSE Executed(FALSE, "CircuitBreakerError", FALSE,
                                   [breaker |-> cb.name,
                                    maxOperations |-> cb.maxOperations,
                                    actualOperations |-> count])
        ELSE /\ globalCounter' = globalCounter + fn.increments
             /\ IF fn.throws
                THEN /\ cb' = [cb EXCEPT !.isTripped = TRUE]
                     /\ cbLast' = Executed(TRUE, "fnError", hasFallback, NoContext)
                ELSE /\ cb' = [cb EXCEPT !.operationCount = count]
                     /\ cbLast' = Executed(TRUE, "returned", hasFallback, NoContext)

\* execute() closing the breaker again when fn returns.
ExecuteClosingOnReturn(fn, hasFallback) ==
    LET count == cb.operationCount + 1
    IN  IF count > cb.maxOperations
        THEN /\ cb' = [cb EXCEPT !.operationCount = count, !.isTripped = TRUE]
             /\ UNCHANGED globalCounter
             /\ cbLast' = IF hasFallback
                          THEN Executed(FALSE, "fallback", TRUE, NoContext)
                          ELSE Executed(FALSE, "CircuitBreakerError", FALSE,
                                   [breaker |-> cb.name,
                                    maxOperations |-> cb.maxOperations,
                                    actualOperations |-> count])
        ELSE /\ globalCounter' = globalCounter + fn.increments
             /\ IF fn.throws
                THEN /\ cb' = [cb EXCEPT !.operationCount = count,
                                         !.isTripped = TRUE]
                     /\ cbLast' = Executed(TRUE, "fnError", hasFallback, NoContext)
                ELSE /\ cb' = [cb EXCEPT !.operationCount = count,
                                         !.isTripped = FALSE]
                     /\ cbLast' = Executed(TRUE, "returned", hasFallback, NoContext)

\* CircuitBreaker.execute(fn, fallback): fn is what the callback does (the
\* number of OperationCounter.increment() calls it makes, and whether it
\* throws); hasFallback tells whether a fallback is supplied.
Execute(fn, hasFallback) ==
    LET count == cb.operationCount + 1
    IN  IF count > cb.maxOperations
        THEN /\ cb' = [cb EXCEPT !.operationCount = count, !.isTripped = TRUE]
             /\ UNCHANGED globalCounter
             /\ cbLast' = IF hasFallback
                          THEN Executed(FALSE, "fallback", TRUE, NoContext)
                          ELSE Executed(FALSE, "CircuitBreakerError", FALSE,
                                   [breaker |-> cb.name,
                                    maxOperations |-> cb.maxOperations,
                                    actualOperations |-> count])
        ELSE /\ globalCounter' = globalCounter + fn.increments
             /\ IF fn.throws
                THEN /\ cb' = [cb EXCEPT !.operationCount = count,
                                         !.isTripped = TRUE]
                     /\ cbLast' = Executed(TRUE, "fnError", hasFallback, NoContext)
                ELSE /\ cb' = [cb EXCEPT !.operationCount = count]
                     /\ cbLast' = Executed(TRUE, "returned", hasFallback, NoContext)

\* CircuitBreaker.reset()
BreakerReset ==
    /\ cb' = [cb EXCEPT !.operationCount = 0, !.isTripped = FALSE]
    /\ cbLast' = [Executed(FALSE, "reset", FALSE, NoContext) EXCEPT !.op = "reset"]

\* CircuitBreaker.getTripped()
GetTripped == cb.isTripped

\* The constructor taking the limit from 0, not from the baseline.
NewTimeoutFromZero(maxOperations) ==
    [maxOperations |-> maxOperations, startCount |-> globalCounter,
     operationLimit |-> maxOperations]

\* new DeterministicTimeout(maxOperations, name), after its
\* createCounter(name): the baseline is captured.
NewTimeout(maxOperations) ==
    [maxOperations |-> maxOperations, startCount |-> globalCounter,
     operationLimit |-> globalCounter + maxOperations]

\* hasElapsed() with a strict comparison.
HasElapsedStrict == globalCounter > timeout.operationLimit

\* DeterministicTimeout.hasElapsed()
HasElapsed == globalCounter >= timeout.operationLimit

\* DeterministicTimeout.reset()
TimeoutReset ==
    timeout' = [timeout EXCEPT !.startCount = globalCounter,
                               !.operationLimit = globalCounter + timeout.maxOperations]

\* increment() leaving the counter as it is.
IncrementSkipped == globalCounter' = globalCounter

\* OperationCounter.increment()
Increment == globalCounter' = globalCounter + 1

----------------------------------------------------------------------------
(* AdaptiveSampler                                                         *)

\* The defaults of the constructor.
DefaultMaxPoints == 10000
DefaultTolerance == Scale \div 10
DefaultMaxDepth == 20
DefaultMaxOperations == 100000

\* SamplingOptions; 0 stands for a field that is absent (or 0: || treats
\* both alike).
NoOptions == [maxPoints |-> 0, tolerance |-> 0, maxDepth |-> 0, maxOperations |-> 0]

\* a || b
OrElse(a, b) == IF a # 0 THEN a ELSE b

\* The fields the constructor sets.
ThisMaxPoints == OrElse(smp.sampler.maxPoints, DefaultMaxPoints)
ThisTolerance == OrElse(smp.sampler.tolerance, DefaultTolerance)
ThisMaxDepth == OrElse(smp.sampler.maxDepth, DefaultMaxDepth)
ThisMaxOperations == OrElse(smp.sampler.maxOperations, DefaultMaxOperations)

LocalMaxPoints == OrElse(smp.options.maxPoints, ThisMaxPoints)
LocalTolerance == OrElse(smp.options.tolerance, ThisTolerance)
LocalMaxDepth == OrElse(smp.options.maxDepth, ThisMaxDepth)
LocalMaxOperations == OrElse(smp.options.maxOperations, ThisMaxOperations)

\* fn maps an x to what calling it there does: it returns a number (of
\* kind "value", "NaN", "Infinity" or "-Infinity") or, kind "throws", it
\* throws.
Throws == [kind |-> "throws", y |-> 0]

IsValid(r) == r.kind = "value"

SafeEvaluate(fn, x) ==
    IF fn[x].kind = "throws" THEN NaN
    ELSE IF IsValid(fn[x]) THEN fn[x] ELSE NaN

\* addPoints() pushing every sample, valid or not.
RECURSIVE AddPointsFromUnchecked(_, _, _, _, _, _)
AddPointsFromUnchecked(fn, a, b, pts, count, i) ==
    IF i >= count THEN pts
    ELSE
      LET t == IF count = 1 THEN 0 ELSE Divide(i * Scale, (count - 1) * Scale)
          interval == Subtract(b, a)
          x == Add(a, Multiply(t, interval))
          y == SafeEvaluate(fn, x)
      IN  AddPointsFromUnchecked(fn, a, b, Append(pts, [x |-> x, y |-> y]),
              count, i + 1)

RECURSIVE AddPointsFrom(_, _, _, _, _, _)
AddPointsFrom(fn, a, b, pts, count, i) ==
    IF i >= count THEN pts
    ELSE
      LET t == IF count = 1 THEN 0 ELSE Divide(i * Scale, (count - 1) * Scale)
          interval == Subtract(b, a)
          x == Add(a, Multiply(t, interval))
          y == SafeEvaluate(fn, x)
      IN  AddPointsFrom(fn, a, b,
              IF IsValid(y) THEN Append(pts, [x |-> x, y |-> y]) ELSE pts,
              count, i + 1)

AddPoints(fn, a, b, pts, count) == AddPointsFrom(fn, a, b, pts, count, 0)

\* The returned array left in the order the points were pushed.
SortByXSkipped(pts) == pts

\* points.sort((a, b) => PrecisionManager.compare(a.x, b.x)): the sort is
\* stable.
RECURSIVE InsertByX(_, _)
InsertByX(sorted, p) ==
    IF sorted = << >> THEN << p >>
    ELSE IF Compare(sorted[Len(sorted)].x, p.x) <= 0 THEN Append(sorted, p)
    ELSE Append(InsertByX(SubSeq(sorted, 1, Len(sorted) - 1), p),
                sorted[Len(sorted)])

RECURSIVE SortByX(_)
SortByX(pts) ==
    IF pts = << >> THEN << >>
    ELSE InsertByX(SortByX(SubSeq(pts, 1, Len(pts) - 1)), pts[Len(pts)])

\* The entry of sample(): the timeout is constructed (which creates its
\* named counter) and the stack holds the whole domain.
SampleEntry ==
    /\ timeout = NewTimeout(LocalMaxOperations)
    /\ counters = {[name |-> "adaptive-sampler", value |-> 0]}
    /\ points = << >>
    /\ stack = << <<smp.domain[1], smp.domain[2], 0>> >>
    /\ spc = "loop"
    /\ iterations = 0
    /\ leaves = << >>

\* A further call of sample() with the same arguments, after one returned.
SampleAgain ==
    /\ spc = "done"
    /\ earlier' = Append(earlier, points)
    /\ timeout' = NewTimeout(LocalMaxOperations)
    /\ counters' = {c \in counters : c.name # "adaptive-sampler"}
                      \cup {[name |-> "adaptive-sampler", value |-> 0]}
    /\ points' = << >>
    /\ stack' = << <<smp.domain[1], smp.domain[2], 0>> >>
    /\ spc' = "loop"
    /\ iterations' = 0
    /\ leaves' = << >>
    /\ UNCHANGED <<smp, globalCounter>>

\* The two pushes of a refinement, the first of them of the whole interval.
ChildrenFromWhole(a, mid, b, depth) ==
    << <<a, b, depth + 1>>, <<a, mid, depth + 1>> >>

\* stack.push([mid, b, depth + 1]); stack.push([a, mid, depth + 1])
Children(a, mid, b, depth) ==
    << <<mid, b, depth + 1>>, <<a, mid, depth + 1>> >>

LoopCondition == Len(stack) > 0 /\ Len(points) < LocalMaxPoints

\* One iteration of the while loop.  A DeterminismError of
\* PrecisionManager is not caught: the call ends with it ("threw").
SampleIterate ==
    /\ spc = "loop"
    /\ LoopCondition
    /\ Increment
    /\ iterations' = iterations + 1
    /\ UNCHANGED <<smp, timeout, earlier>>
    /\ IF HasElapsed'
       THEN /\ spc' = "sort"
            /\ UNCHANGED <<points, stack, leaves>>
       ELSE
         LET top == stack[Len(stack)]
             rest == SubSeq(stack, 1, Len(stack) - 1)
             a == top[1]
             b == top[2]
             depth == top[3]
             mid == Midpoint(a, b)
             fa == SafeEvaluate(smp.fn, a)
             fb == SafeEvaluate(smp.fn, b)
             fm == SafeEvaluate(smp.fn, mid)
             expectedMidY == Midpoint(fa.y, fb.y)
             difference == PmSubtract(fm, Num(expectedMidY))
             error == Abs(Subtract(fm.y, expectedMidY))
         IN  IF depth >= LocalMaxDepth
             THEN /\ points' = AddPoints(smp.fn, a, b, points, 2)
                  /\ stack' = rest
                  /\ leaves' = Append(leaves, <<a, b>>)
                  /\ spc' = "loop"
             ELSE IF ~IsValid(fa) \/ ~IsValid(fb) \/ ~IsValid(fm)
             THEN /\ points' = AddPoints(smp.fn, a, b, points, 2)
                  /\ stack' = rest
                  /\ leaves' = Append(leaves, <<a, b>>)
                  /\ spc' = "loop"
             ELSE IF difference.threw
             THEN /\ spc' = "threw"
                  /\ UNCHANGED <<points, stack, leaves>>
             ELSE IF LessThan(error, LocalTolerance)
             THEN /\ points' = AddPoints(smp.fn, a, b, points, 2)
                  /\ stack' = rest
                  /\ leaves' = Append(leaves, <<a, b>>)
                  /\ spc' = "loop"
             ELSE /\ points' = points
                  /\ stack' = rest \o Children(a, mid, b, depth)
                  /\ UNCHANGED leaves
                  /\ spc' = "loop"

\* The loop has ended (its condition is false, or the timeout broke it):
\* the points are sorted and returned.
SampleReturn ==
    /\ \/ spc = "sort"
       \/ spc = "loop" /\ ~LoopCondition
    /\ points' = SortByX(points)
    /\ spc' = "done"
    /\ UNCHANGED <<smp, stack, timeout, globalCounter, iterations, earlier, leaves>>

----------------------------------------------------------------------------
(* marchingSquares                                                         *)

\* The defaults of the options.
DefaultCols == 128
DefaultRows == 128
DefaultMaxSegments == 10000

Cols == OrElse(ms.options.cols, DefaultCols)

Rows == OrElse(ms.options.rows, DefaultRows)

\* options.iso ?? 0
Iso == IF ms.options.iso.given THEN ms.options.iso.value ELSE 0

MaxSegments == OrElse(ms.options.maxSegments, DefaultMaxSegments)

\* (xMax - xMin) / cols and (yMax - yMin) / rows
Dx == RoundHalfEven(ms.xMax - ms.xMin, Cols)

Dy == RoundHalfEven(ms.yMax - ms.yMin, Rows)

\* grid[j][i]: fn at the node, or NaN when fn throws there or what it
\* returns is not finite.
Grid(i, j) ==
    IF ms.fn[<<i, j>>].kind = "value" THEN ms.fn[<<i, j>>] ELSE NaN

\* options.iso absent
NoIso == [given |-> FALSE, value |-> 0]

\* No crossing on the edge.
Null == [found |-> FALSE, x |-> 0, y |-> 0]

\* The ends of an edge of cell (i, j): 0 = left, 1 = top, 2 = right,
\* 3 = bottom.
EdgeEnds(i, j, edge) ==
    CASE edge = 0 ->
           [x1 |-> ms.xMin + i * Dx, y1 |-> ms.yMin + j * Dy, v1 |-> Grid(i, j),
            x2 |-> ms.xMin + i * Dx, y2 |-> ms.yMin + (j + 1) * Dy,
            v2 |-> Grid(i, j + 1)]
      [] edge = 1 ->
           [x1 |-> ms.xMin + i * Dx, y1 |-> ms.yMin + (j + 1) * Dy,
            v1 |-> Grid(i, j + 1),
            x2 |-> ms.xMin + (i + 1) * Dx, y2 |-> ms.yMin + (j + 1) * Dy,
            v2 |-> Grid(i + 1, j + 1)]
      [] edge = 2 ->
           [x1 |-> ms.xMin + (i + 1) * Dx, y1 |-> ms.yMin + (j + 1) * Dy,
            v1 |-> Grid(i + 1, j + 1),
            x2 |-> ms.xMin + (i + 1) * Dx, y2 |-> ms.yMin + j * Dy,
            v2 |-> Grid(i + 1, j)]
      [] OTHER ->
           [x1 |-> ms.xMin + (i + 1) * Dx, y1 |-> ms.yMin + j * Dy,
            v1 |-> Grid(i + 1, j),
            x2 |-> ms.xMin + i * Dx, y2 |-> ms.yMin + j * Dy, v2 |-> Grid(i, j)]

\* sampleEdge(i, j, edge): the crossing, linearly interpolated, or null
\* when an end is not finite or t is not (the two ends are equal).
SampleEdge(i, j, edge) ==
    LET e == EdgeEnds(i, j, edge)
        t == Divide(Iso - e.v1.y, e.v2.y - e.v1.y)
    IN  IF ~IsFinite(e.v1) \/ ~IsFinite(e.v2) THEN Null
        ELSE IF e.v2.y - e.v1.y = 0 THEN Null
        ELSE [found |-> TRUE,
              x |-> e.x1 + Multiply(t, e.x2 - e.x1),
              y |-> e.y1 + Multiply(t, e.y2 - e.y1)]

\* The case table with the two saddle entries pairing the opposite edges.
EdgeTablePairingOpposite ==
    << << >>, <<0, 3>>, <<3, 2>>, <<0, 2>>, <<1, 2>>, <<0, 2, 1, 3>>, <<1, 3>>,
       <<0, 1>>, <<0, 1>>, <<1, 3>>, <<0, 2, 1, 3>>, <<1, 2>>, <<0, 2>>, <<3, 2>>,
       <<0, 3>>, << >> >>

\* The case table with the cases of a contour crossing top and bottom
\* (6 and 9) listing left and right.
EdgeTableTurned ==
    << << >>, <<0, 3>>, <<3, 2>>, <<0, 2>>, <<1, 2>>, <<0, 1, 2, 3>>, <<0, 2>>,
       <<0, 1>>, <<0, 1>>, <<0, 2>>, <<0, 1, 2, 3>>, <<1, 2>>, <<0, 2>>, <<3, 2>>,
       <<0, 3>>, << >> >>

\* edgeTable: for each 4-bit index, the edges intersected.
EdgeTable ==
    << << >>, <<0, 3>>, <<3, 2>>, <<0, 2>>, <<1, 2>>, <<0, 1, 2, 3>>, <<1, 3>>,
       <<0, 1>>, <<0, 1>>, <<1, 3>>, <<0, 1, 2, 3>>, <<1, 2>>, <<0, 2>>, <<3, 2>>,
       <<0, 3>>, << >> >>

\* isFinite(v) && v > iso ? 1 : 0
Bit(v) == IF IsFinite(v) /\ v.y > Iso THEN 1 ELSE 0

\* b0 | (b1 << 1) | (b2 << 2) | (b3 << 3)
CellIndex(i, j) ==
    Bit(Grid(i, j)) + 2 * Bit(Grid(i + 1, j)) + 4 * Bit(Grid(i + 1, j + 1))
        + 8 * Bit(Grid(i, j + 1))

\* The crossings pushed for the edges, in the order of the table.
RECURSIVE PolyFrom(_, _, _, _)
PolyFrom(i, j, edges, k) ==
    IF k > Len(edges) THEN << >>
    ELSE LET p == SampleEdge(i, j, edges[k])
         IN  (IF p.found THEN << [x |-> p.x, y |-> p.y] >> ELSE << >>)
                 \o PolyFrom(i, j, edges, k + 1)

\* poly of cell (i, j)
CellPoly(i, j) == PolyFrom(i, j, EdgeTable[CellIndex(i, j) + 1], 1)

\* The test that ends the scan, on more than maxSegments only.
ReachedMaxSegmentsStrict(n) == n > MaxSegments

\* segments.length >= maxSegments
ReachedMaxSegments(n) == n >= MaxSegments

\* The entry of marchingSquares(): the grid is evaluated and nothing is
\* emitted yet.
MarchEntry ==
    /\ segments = << >>
    /\ cell = 0
    /\ mpc = "scan"

\* One pass of the inner loop: cell number `cell` of the row-major scan,
\* row j = cell \div cols, column i = cell % cols.
MarchCell ==
    /\ mpc = "scan"
    /\ cell < Rows * Cols
    /\ LET j == cell \div Cols
           i == cell % Cols
           poly == CellPoly(i, j)
       IN  /\ cell' = cell + 1
           /\ IF Len(poly) >= 2
              THEN /\ segments' = Append(segments, poly)
                   /\ mpc' = IF ReachedMaxSegments(Len(segments) + 1)
                             THEN "done" ELSE "scan"
              ELSE UNCHANGED <<segments, mpc>>
    /\ UNCHANGED ms

\* The loops have ended: segments is returned.
MarchReturn ==
    /\ mpc = "scan"
    /\ cell = Rows * Cols
    /\ mpc' = "done"
    /\ UNCHANGED <<ms, segments, cell>>

----------------------------------------------------------------------------
(* NumericalProofSystem: proveDeterministic and proveInvertible.  A result *)
(* of the algorithm is a number counted in units finer than what           *)
(* toFixed(15) keeps; the error of a round trip is counted in units of     *)
(* EPSILON.                                                                *)

\* The inputs generateRandomInput() draws from, two of them.
ProofInputs == {1, 2}

\* Units of a result per unit of its 15th decimal.
HashUnit == 4

\* result.toFixed(15): the nearest multiple, the larger of two as near.
ToFixed(r) == (2 * r + HashUnit) \div (2 * HashUnit)

\* hashResult(result) of a number
HashResult(result) == ToFixed(result.y)

\* EPSILON = 1e-15, in its own unit.
ProofEpsilon == 1

\* generateTestGrid(10): 10 x 10 points.
TestGridCount == 10

ProofResult(success, successful, message) ==
    [success |-> success, successful |-> successful, message |-> message]

\* The locals at the entry of a routine.
NoRun(pc) ==
    [pc |-> pc, i |-> 0, results |-> {}, successful |-> 0,
     result |-> ProofResult(FALSE, 0, "")]

\* One pass of the loop of proveDeterministic: the algorithm is called on
\* a random input, outside any try; its result is hashed and added.
ProveDeterministicIterate ==
    /\ proof.routine = "proveDeterministic"
    /\ prun.pc = "run"
    /\ prun.i < proof.iterations
    /\ \E input \in ProofInputs :
          LET result == proof.algorithm[<<input, prun.i + 1>>]
              results == prun.results \cup {HashResult(result)}
          IN  IF result = Throws
              THEN prun' = [prun EXCEPT !.pc = "threw"]
              ELSE IF Cardinality(results) > 1
              THEN prun' = [prun EXCEPT
                              !.pc = "returned", !.results = results,
                              !.result = ProofResult(FALSE, 0,
                                  "Non-deterministic behavior detected")]
              ELSE prun' = [prun EXCEPT !.i = prun.i + 1, !.results = results]
    /\ UNCHANGED proof

ProveDeterministicReturn ==
    /\ proof.routine = "proveDeterministic"
    /\ prun.pc = "run"
    /\ prun.i = proof.iterations
    /\ prun' = [prun EXCEPT !.pc = "returned",
                            !.result = ProofResult(TRUE, proof.iterations,
                                "Algorithm is deterministic")]
    /\ UNCHANGED proof

\* What forward and inverse do on test point k: the distance of the round
\* trip, or a throw.
RoundTrip(k) ==
    IF k = proof.transform.at THEN proof.transform.does ELSE Num(0)

\* One pass of the loop of proveInvertible, its body within try.
ProveInvertibleIterate ==
    /\ proof.routine = "proveInvertible"
    /\ prun.pc = "run"
    /\ prun.i < TestGridCount * TestGridCount
    /\ LET error == RoundTrip(prun.i + 1)
       IN  IF error = Throws
           THEN prun' = [prun EXCEPT
                           !.pc = "returned",
                           !.result = ProofResult(FALSE, prun.successful,
                                                  "Transform failed at point")]
           ELSE IF error.y > ProofEpsilon
           THEN prun' = [prun EXCEPT
                           !.pc = "returned",
                           !.result = ProofResult(FALSE, prun.successful,
                                          "Transform is not invertible at point")]
           ELSE prun' = [prun EXCEPT !.i = prun.i + 1,
                                     !.successful = prun.successful + 1]
    /\ UNCHANGED proof

ProveInvertibleReturn ==
    /\ proof.routine = "proveInvertible"
    /\ prun.pc = "run"
    /\ prun.i = TestGridCount * TestGridCount
    /\ prun' = [prun EXCEPT !.pc = "returned",
                            !.result = ProofResult(TRUE, prun.successful,
                                "Transform is invertible across all test points")]
    /\ UNCHANGED proof

----------------------------------------------------------------------------
(* The GraphViewport specification: construction, then any calls.          *)

MaxOps == 4

EmptyPartial == [f \in {} |-> 0]

\* initialViewport arguments of the constructor.
InitialViewportArgs ==
    << EmptyPartial,
       [xMin |-> 5 * Scale, xMax |-> -5 * Scale],
       [yMin |-> -40 * Scale, yMax |-> 40 * Scale] >>

\* constraints arguments of the constructor (every field given).
ConstraintArgs ==
    << [minXRange |-> 2, minYRange |-> 2,
        maxXRange |-> 1000 * Scale, maxYRange |-> 1000 * Scale,
        maxZoomLevel |-> 1000 * Scale],
       [minXRange |-> 4 * Scale, minYRange |-> 4 * Scale,
        maxXRange |-> 10 * Scale, maxYRange |-> 10 * Scale,
        maxZoomLevel |-> 1000 * Scale],
       [minXRange |-> 1 * Scale, minYRange |-> 1 * Scale,
        maxXRange |-> 40 * Scale, maxYRange |-> 40 * Scale,
        maxZoomLevel |-> 3 * Scale] >>

PanArgs == { <<1 * Scale, 1 * Scale>>, <<2 * Scale, 2 * Scale>> }

ZoomFactors == { 2 * Scale, Scale \div 2, 0 }

ZoomCenters == { NoCenter, [given |-> TRUE, x |-> 1 * Scale, y |-> 1 * Scale] }

SetViewportArgs ==
    << [xMin |-> 3 * Scale, xMax |-> -3 * Scale],
       [xMin |-> -50 * Scale, xMax |-> 50 * Scale, yMin |-> 0, yMax |-> 0] >>

FitArgs ==
    << << >>,
       << [x |-> 0, y |-> 0], [x |-> 4 * Scale, y |-> 2 * Scale] >> >>

\* fitToPoints' default padding, 0.1.
DefaultPadding == Scale \div 10

Constructor(initialViewport, constraintArg) ==
    LET v == Merge(DefaultViewport, initialViewport)
    IN  /\ viewport = v
        /\ constraints = constraintArg
        /\ history = SaveToHistory(<< >>, v)
        /\ vpLast = Call("constructor", "ok", 0, NoCenter)

\* The values of the variables a specification does not use.
ViewportIdle ==
    /\ viewport = DefaultViewport
    /\ constraints = ConstraintArgs[1]
    /\ history = << DefaultViewport >>
    /\ vpLast = Call("constructor", "ok", 0, NoCenter)

CounterIdle ==
    /\ globalCounter = 0
    /\ registry = {}
    /\ counters = {}

BreakerIdle ==
    /\ cb = NewCircuitBreaker("", 0)
    /\ cbCalls = 0
    /\ cbLast = [Executed(FALSE, "", FALSE, NoContext) EXCEPT !.op = "constructor"]

TestIdle ==
    test = [pc |-> "idle", run |-> 0, i |-> 0, trips |-> <<0, 0>>, period |-> 0]

TimeoutIdle ==
    /\ timeout = [maxOperations |-> 0, startCount |-> 0, operationLimit |-> 0]
    /\ tmGhost = [base |-> 0, since |-> 0, counterReset |-> FALSE, sinceReset |-> 0]
    /\ wallClock = 0

BudgetIdle == CounterIdle /\ BreakerIdle /\ TestIdle /\ TimeoutIdle

SamplerIdle ==
    /\ smp = [fn |-> << >>, domain |-> <<0, 0>>,
              sampler |-> NoOptions, options |-> NoOptions]
    /\ points = << >>
    /\ stack = << >>
    /\ spc = "idle"
    /\ iterations = 0
    /\ earlier = << >>
    /\ leaves = << >>

PrecisionIdle ==
    /\ operationCount = 0
    /\ pm = NoCall(NaN, NaN, NaN)

StoreIdle ==
    /\ store = [viewport |-> NewGraphViewport(EmptyPartial)]
    /\ stLast = StoreCall("create", "ok", DefaultViewport)

TransformIdle ==
    tr = [scale |-> [scaleX |-> Num(Scale), scaleY |-> Num(Scale),
                     offsetX |-> Num(0), offsetY |-> Num(0)],
          point |-> [x |-> Num(0), y |-> Num(0)],
          forward |-> NoPoint, back |-> NoPoint, pc |-> "idle"]

ProofIdle ==
    /\ proof = [routine |-> "", algorithm |-> << >>, iterations |-> 0,
                transform |-> << >>]
    /\ prun = NoRun("idle")

ConfigIdle ==
    /\ pmConfig = DefaultConfig
    /\ decimal = DecimalAtStartup
    /\ pcLast = ConfigCall("start", 0, 0, 0)

MarchIdle ==
    /\ ms = [fn |-> << >>, xMin |-> 0, xMax |-> 0, yMin |-> 0, yMax |-> 0,
             options |-> [cols |-> 0, rows |-> 0, iso |-> NoIso, maxSegments |-> 0]]
    /\ segments = << >>
    /\ cell = 0
    /\ mpc = "idle"

InitViewport ==
    /\ \E i \in 1..Len(InitialViewportArgs), j \in 1..Len(ConstraintArgs) :
          Constructor(InitialViewportArgs[i], ConstraintArgs[j])
    /\ nOps = 0
    /\ BudgetIdle
    /\ SamplerIdle
    /\ PrecisionIdle
    /\ MarchIdle
    /\ ConfigIdle
    /\ ProofIdle
    /\ StoreIdle
    /\ TransformIdle

Counted(A) ==
    /\ nOps < MaxOps
    /\ nOps' = nOps + 1
    /\ UNCHANGED <<constraints, budgetVars, samplerVars, precisionVars, marchVars, configVars, proofVars, storeVars, transformVars>>
    /\ A

NextViewport ==
    \/ \E d \in PanArgs : Counted(Pan(d[1], d[2]))
    \/ \E f \in ZoomFactors, c \in ZoomCenters : Counted(Zoom(f, c))
    \/ \E i \in 1..Len(SetViewportArgs) : Counted(SetViewport(SetViewportArgs[i]))
    \/ \E i \in 1..Len(FitArgs) : Counted(FitToPoints(FitArgs[i], DefaultPadding))
    \/ Counted(Reset)
    \/ Counted(Undo)

SpecViewport == InitViewport /\ [][NextViewport]_vars

\* The calls of a viewport, pan() with arguments that are not finite among
\* them.
PanNumberArgs ==
    { <<NaN, Num(1 * Scale)>>, <<Num(1 * Scale), NaN>>,
      <<Num(1 * Scale), PosInfinity>>, <<Num(1 * Scale), Num(0)>> }

NextViewportFaults ==
    \/ NextViewport
    \/ \E d \in PanNumberArgs : Counted(PanNumbers(d[1], d[2]))

SpecViewportFaults == InitViewport /\ [][NextViewportFaults]_vars

\* Long runs of one viewport: pan(1, 0) and undo only, so that the history
\* fills up to maxHistorySize and evicts.
MaxRun == 56

CountedRun(A) ==
    /\ nOps < MaxRun
    /\ nOps' = nOps + 1
    /\ UNCHANGED <<constraints, budgetVars, samplerVars, precisionVars, marchVars, configVars, proofVars, storeVars, transformVars>>
    /\ A

InitHistory ==
    /\ Constructor(EmptyPartial, ConstraintArgs[1])
    /\ nOps = 0
    /\ BudgetIdle
    /\ SamplerIdle
    /\ PrecisionIdle
    /\ MarchIdle
    /\ ConfigIdle
    /\ ProofIdle
    /\ StoreIdle
    /\ TransformIdle

NextHistory ==
    \/ CountedRun(Pan(1 * Scale, 0))
    \/ CountedRun(Undo)

SpecHistory == InitHistory /\ [][NextHistory]_vars

----------------------------------------------------------------------------
(* One CircuitBreaker under any execute() and reset() calls.               *)

MaxBudget == 3

MaxCalls == 6

\* What a callback does: whether it throws, and how many times it calls
\* OperationCounter.increment().
Fns == [throws : BOOLEAN, increments : {0, 1}]

InitBreaker ==
    /\ ViewportIdle
    /\ nOps = 0
    /\ CounterIdle
    /\ \E m \in 0..MaxBudget : cb = NewCircuitBreaker("breaker", m)
    /\ cbCalls = 0
    /\ cbLast = [Executed(FALSE, "", FALSE, NoContext) EXCEPT !.op = "constructor"]
    /\ TestIdle
    /\ TimeoutIdle
    /\ SamplerIdle
    /\ PrecisionIdle
    /\ MarchIdle
    /\ ConfigIdle
    /\ ProofIdle
    /\ StoreIdle
    /\ TransformIdle

CountedCall(A) ==
    /\ nOps < MaxCalls
    /\ nOps' = nOps + 1
    /\ UNCHANGED <<vpVars, registry, counters, test, timeout, tmGhost, wallClock,
                   samplerVars, precisionVars, marchVars, configVars, proofVars, storeVars, transformVars>>
    /\ A

NextBreaker ==
    \/ \E fn \in Fns, hasFallback \in BOOLEAN :
          CountedCall(Execute(fn, hasFallback) /\ cbCalls' = cbCalls + 1)
    \/ CountedCall(BreakerReset /\ cbCalls' = 0 /\ UNCHANGED globalCounter)

SpecBreaker == InitBreaker /\ [][NextBreaker]_vars

----------------------------------------------------------------------------
(* testOperationCounterDeterminism: two runs of the same execute() calls,  *)
(* each after OperationCounter.reset() and a fresh registration.           *)

TestMaxOperations == 100

TestCalls == 150

MaxGlobal == 2

\* The callbacks of a run: call number i throws when the period divides i
\* (period 0: no call throws, as in the test).
Periods == {0, 7, 60}

TestConfig == [name |-> "test-breaker", maxOperations |-> TestMaxOperations]

TestFn(i) ==
    [throws |-> (test.period > 0 /\ i % test.period = 0), increments |-> 1]

\* The breaker left behind by whatever ran before: none used, or one that
\* has run through its calls.
PriorBreakers ==
    { NewCircuitBreaker("test-breaker", TestMaxOperations),
      [NewCircuitBreaker("test-breaker", TestMaxOperations)
          EXCEPT !.operationCount = TestCalls, !.isTripped = TRUE] }

InitTrip ==
    /\ ViewportIdle
    /\ nOps = 0
    /\ globalCounter \in 0..MaxGlobal
    /\ cb \in PriorBreakers
    /\ registry = IF cb.isTripped THEN {TestConfig} ELSE {}
    /\ counters = {}
    /\ cbCalls = cb.operationCount
    /\ cbLast = [Executed(FALSE, "", FALSE, NoContext) EXCEPT !.op = "constructor"]
    /\ \E period \in Periods :
          test = [pc |-> "reset", run |-> 1, i |-> 0, trips |-> <<0, 0>>,
                  period |-> period]
    /\ TimeoutIdle
    /\ SamplerIdle
    /\ PrecisionIdle
    /\ MarchIdle
    /\ ConfigIdle
    /\ ProofIdle
    /\ StoreIdle
    /\ TransformIdle

TestReset ==
    /\ test.pc = "reset"
    /\ CounterReset
    /\ test' = [test EXCEPT !.pc = "register"]
    /\ UNCHANGED <<cb, cbCalls, cbLast>>

TestRegister ==
    /\ test.pc = "register"
    /\ RegisterCircuitBreaker(TestConfig)
    /\ cbCalls' = 0
    /\ test' = [test EXCEPT !.pc = "loop", !.i = 0]
    /\ UNCHANGED <<globalCounter, counters, cbLast>>

\* One iteration of the loop: the call, and the catch that counts a trip.
TestExecute ==
    /\ test.pc = "loop"
    /\ test.i < TestCalls
    /\ Execute(TestFn(test.i + 1), FALSE)
    /\ cbCalls' = cbCalls + 1
    /\ test' = [test EXCEPT
                  !.i = test.i + 1,
                  !.trips[test.run] =
                      IF cbLast'.outcome \in {"CircuitBreakerError", "fnError"}
                      THEN test.trips[test.run] + 1
                      ELSE test.trips[test.run]]
    /\ UNCHANGED <<registry, counters>>

TestLoopEnd ==
    /\ test.pc = "loop"
    /\ test.i = TestCalls
    /\ test' = IF test.run = 1
               THEN [test EXCEPT !.pc = "reset", !.run = 2, !.i = 0]
               ELSE [test EXCEPT !.pc = "done"]
    /\ UNCHANGED <<globalCounter, registry, counters, cb, cbCalls, cbLast>>

TestStep(A) ==
    /\ A
    /\ UNCHANGED <<vpVars, nOps, timeout, tmGhost, wallClock, samplerVars,
                   precisionVars, marchVars, configVars, proofVars, storeVars, transformVars>>

NextTrip ==
    \/ TestStep(TestReset)
    \/ TestStep(TestRegister)
    \/ TestStep(TestExecute)
    \/ TestStep(TestLoopEnd)

SpecTrip == InitTrip /\ [][NextTrip]_vars

----------------------------------------------------------------------------
(* One DeterministicTimeout, the counted operations and the clock.         *)

MaxLimit == 3

MaxTimeoutOps == 6

InitTimeout ==
    /\ ViewportIdle
    /\ nOps = 0
    /\ globalCounter \in 0..MaxGlobal
    /\ registry = {}
    /\ counters = {[name |-> "timeout", value |-> 0]}
    /\ BreakerIdle
    /\ TestIdle
    /\ \E n \in 1..MaxLimit : timeout = NewTimeout(n)
    /\ tmGhost = [base |-> globalCounter, since |-> 0,
                  counterReset |-> FALSE, sinceReset |-> 0]
    /\ wallClock = 0
    /\ SamplerIdle
    /\ PrecisionIdle
    /\ MarchIdle
    /\ ConfigIdle
    /\ ProofIdle
    /\ StoreIdle
    /\ TransformIdle

CountedTimeoutOp(A) ==
    /\ nOps < MaxTimeoutOps
    /\ nOps' = nOps + 1
    /\ UNCHANGED <<vpVars, cb, cbCalls, cbLast, test, samplerVars, precisionVars,
                   marchVars, configVars, proofVars, storeVars, transformVars>>
    /\ A

TmIncrement ==
    /\ Increment
    /\ tmGhost' = [tmGhost EXCEPT !.since = tmGhost.since + 1,
                                  !.sinceReset = tmGhost.sinceReset + 1]
    /\ UNCHANGED <<registry, counters, timeout, wallClock>>

TmCounterReset ==
    /\ CounterReset
    /\ tmGhost' = [tmGhost EXCEPT !.counterReset = TRUE, !.sinceReset = 0]
    /\ UNCHANGED <<timeout, wallClock>>

TmReset ==
    /\ TimeoutReset
    /\ tmGhost' = [base |-> globalCounter, since |-> 0,
                   counterReset |-> FALSE, sinceReset |-> 0]
    /\ UNCHANGED <<globalCounter, registry, counters, wallClock>>

Tick ==
    /\ wallClock' = wallClock + 1
    /\ UNCHANGED <<globalCounter, registry, counters, timeout, tmGhost>>

NextTimeout ==
    \/ CountedTimeoutOp(TmIncrement)
    \/ CountedTimeoutOp(TmCounterReset)
    \/ CountedTimeoutOp(TmReset)
    \/ CountedTimeoutOp(Tick)

SpecTimeout == InitTimeout /\ [][NextTimeout]_vars

----------------------------------------------------------------------------
(* One sample() call, for every fn on a grid of the domain.                *)

\* The deepest subdivision the calls ask for, and the grid it reaches:
\* the domain is [0, DomainEnd] and fn is evaluated on GridXs only.
DepthOptions == {1, 2}
GridStep == 2
DomainEnd == 4 * GridStep
GridXs == {i * GridStep : i \in 0..4}

\* What fn does at a point.
FnOutcomes ==
    { [kind |-> "value", y |-> 0], [kind |-> "value", y |-> 1 * Scale], NaN }

MaxPointsOption == 4

\* The domain, and the domain given with its ends swapped.
Domains == { <<0, DomainEnd>>, <<DomainEnd, 0>> }

InitSampler ==
    /\ ViewportIdle
    /\ nOps = 0
    /\ globalCounter \in 0..MaxGlobal
    /\ registry = {}
    /\ BreakerIdle
    /\ TestIdle
    /\ tmGhost = [base |-> 0, since |-> 0, counterReset |-> FALSE, sinceReset |-> 0]
    /\ wallClock = 0
    /\ \E fn \in [GridXs -> FnOutcomes],
          thisMaxPoints \in {0, 3},
          maxPoints \in 0..MaxPointsOption,
          maxDepth \in DepthOptions,
          maxOperations \in {0, 4},
          domain \in Domains :
          smp = [fn |-> fn, domain |-> domain,
                 sampler |-> [NoOptions EXCEPT !.maxPoints = thisMaxPoints],
                 options |-> [NoOptions EXCEPT !.maxPoints = maxPoints,
                                               !.maxDepth = maxDepth,
                                               !.maxOperations = maxOperations]]
    /\ SampleEntry
    /\ earlier = << >>
    /\ PrecisionIdle
    /\ MarchIdle
    /\ ConfigIdle
    /\ ProofIdle
    /\ StoreIdle
    /\ TransformIdle

SamplerStep(A) ==
    /\ A
    /\ UNCHANGED <<vpVars, nOps, registry, counters, cb, cbCalls, cbLast, test,
                   tmGhost, wallClock, precisionVars, marchVars, configVars, proofVars, storeVars, transformVars>>

NextSampler ==
    \/ SamplerStep(SampleIterate)
    \/ SamplerStep(SampleReturn)

SpecSampler == InitSampler /\ [][NextSampler]_vars

----------------------------------------------------------------------------
(* One sample() call under an operation budget.  sample() is synchronous   *)
(* code: once called it runs on until it returns, which the weak fairness  *)
(* of its steps states.                                                    *)

BudgetOptions == {0, 1, 2, 4}

InitSamplerBudget ==
    /\ ViewportIdle
    /\ nOps = 0
    /\ globalCounter \in 0..MaxGlobal
    /\ registry = {}
    /\ BreakerIdle
    /\ TestIdle
    /\ tmGhost = [base |-> 0, since |-> 0, counterReset |-> FALSE, sinceReset |-> 0]
    /\ wallClock = 0
    /\ \E fn \in [GridXs -> FnOutcomes],
          maxPoints \in {3, MaxPointsOption},
          maxOperations \in BudgetOptions :
          smp = [fn |-> fn, domain |-> <<0, DomainEnd>>,
                 sampler |-> NoOptions,
                 options |-> [NoOptions EXCEPT !.maxPoints = maxPoints,
                                               !.maxDepth = 2,
                                               !.maxOperations = maxOperations]]
    /\ SampleEntry
    /\ earlier = << >>
    /\ PrecisionIdle
    /\ MarchIdle
    /\ ConfigIdle
    /\ ProofIdle
    /\ StoreIdle
    /\ TransformIdle

SpecSamplerBudget ==
    InitSamplerBudget /\ [][NextSampler]_vars /\ WF_vars(NextSampler)

----------------------------------------------------------------------------
(* One sample() call of a fn that may throw or return numbers that are not *)
(* finite, or finite ones as large as numbers get.                         *)

FaultOutcomes ==
    { Num(0), Num(MaxNumber), Num(-MaxNumber), NaN, PosInfinity, Throws }

InitSamplerFaults ==
    /\ ViewportIdle
    /\ nOps = 0
    /\ globalCounter = 0
    /\ registry = {}
    /\ BreakerIdle
    /\ TestIdle
    /\ tmGhost = [base |-> 0, since |-> 0, counterReset |-> FALSE, sinceReset |-> 0]
    /\ wallClock = 0
    /\ \E fn \in [GridXs -> FaultOutcomes],
          maxDepth \in DepthOptions,
          domain \in Domains :
          smp = [fn |-> fn, domain |-> domain,
                 sampler |-> NoOptions,
                 options |-> [NoOptions EXCEPT !.maxDepth = maxDepth]]
    /\ SampleEntry
    /\ earlier = << >>
    /\ PrecisionIdle
    /\ MarchIdle
    /\ ConfigIdle
    /\ ProofIdle
    /\ StoreIdle
    /\ TransformIdle

SpecSamplerFaults == InitSamplerFaults /\ [][NextSampler]_vars

----------------------------------------------------------------------------
(* sample() called again with the same arguments, after any counted        *)
(* operations and resets of the counter.                                   *)

MaxBetween == 2

MaxRepeat == 1

InitTwice ==
    /\ ViewportIdle
    /\ nOps = 0
    /\ globalCounter \in 0..MaxGlobal
    /\ registry = {}
    /\ BreakerIdle
    /\ TestIdle
    /\ tmGhost = [base |-> 0, since |-> 0, counterReset |-> FALSE, sinceReset |-> 0]
    /\ wallClock = 0
    /\ \E fn \in [GridXs -> FnOutcomes],
          maxPoints \in {0, 3},
          maxOperations \in {0, 4},
          domain \in Domains :
          smp = [fn |-> fn, domain |-> domain,
                 sampler |-> NoOptions,
                 options |-> [NoOptions EXCEPT !.maxPoints = maxPoints,
                                               !.maxDepth = 2,
                                               !.maxOperations = maxOperations]]
    /\ SampleEntry
    /\ earlier = << >>
    /\ PrecisionIdle
    /\ MarchIdle
    /\ ConfigIdle
    /\ ProofIdle
    /\ StoreIdle
    /\ TransformIdle

\* Between two calls: OperationCounter.increment()
TwIncrement ==
    /\ spc = "done"
    /\ nOps < MaxBetween
    /\ nOps' = nOps + 1
    /\ Increment
    /\ UNCHANGED <<vpVars, registry, counters, cb, cbCalls, cbLast, test, timeout,
                   tmGhost, wallClock, samplerVars, precisionVars, marchVars, configVars, proofVars, storeVars, transformVars>>

\* Between two calls: OperationCounter.reset()
TwCounterReset ==
    /\ spc = "done"
    /\ nOps < MaxBetween
    /\ nOps' = nOps + 1
    /\ CounterReset
    /\ UNCHANGED <<vpVars, cb, cbCalls, cbLast, test, timeout, tmGhost, wallClock,
                   samplerVars, precisionVars, marchVars, configVars, proofVars, storeVars, transformVars>>

TwAgain ==
    /\ Len(earlier) < MaxRepeat
    /\ SampleAgain
    /\ UNCHANGED <<vpVars, nOps, registry, cb, cbCalls, cbLast, test, tmGhost,
                   wallClock, precisionVars, marchVars, configVars, proofVars, storeVars, transformVars>>

NextTwice ==
    \/ SamplerStep(SampleIterate)
    \/ SamplerStep(SampleReturn)
    \/ TwIncrement
    \/ TwCounterReset
    \/ TwAgain

SpecSampleTwice == InitTwice /\ [][NextTwice]_vars

----------------------------------------------------------------------------
(* One marchingSquares() call over a grid of 2 x 2 cells, for every fn on  *)
(* its nodes.                                                              *)

MaxSegmentsOption == 2

\* The window [0, 2] x [0, 2] cut in 2 columns and 2 rows.
GridOptions == [cols |-> 2, rows |-> 2]

Nodes == (0..GridOptions.cols) \X (0..GridOptions.rows)

\* What fn does at a node: -1, 4, or a value that is not finite.
NodeOutcomes == { Num(-1 * Scale), Num(4 * Scale), PosInfinity }

IsoOptions == { NoIso, [given |-> TRUE, value |-> Scale] }

InitMarch ==
    /\ ViewportIdle
    /\ nOps = 0
    /\ BudgetIdle
    /\ SamplerIdle
    /\ PrecisionIdle
    /\ \E fn \in [Nodes -> NodeOutcomes],
          iso \in IsoOptions,
          maxSegments \in 0..MaxSegmentsOption :
          ms = [fn |-> fn,
                xMin |-> 0, xMax |-> GridOptions.cols * Scale,
                yMin |-> 0, yMax |-> GridOptions.rows * Scale,
                options |-> [cols |-> GridOptions.cols, rows |-> GridOptions.rows,
                             iso |-> iso, maxSegments |-> maxSegments]]
    /\ MarchEntry
    /\ ConfigIdle
    /\ ProofIdle
    /\ StoreIdle
    /\ TransformIdle

MarchStep(A) ==
    /\ A
    /\ UNCHANGED <<vpVars, nOps, budgetVars, samplerVars, precisionVars, configVars, proofVars, storeVars, transformVars>>

NextMarch ==
    \/ MarchStep(MarchCell)
    \/ MarchStep(MarchReturn)

SpecMarch == InitMarch /\ [][NextMarch]_vars

----------------------------------------------------------------------------
(* PrecisionManager calls on any operands.                                 *)

MaxPmCalls == 2

\* The operands: -1, 0, 0.5, 1, 2, the largest finite number, and the
\* numbers that are not finite.
Operands ==
    { Num(-1 * Scale), Num(0), Num(Scale \div 2), Num(Scale), Num(2 * Scale),
      Num(MaxNumber), NaN, PosInfinity, NegInfinity }

\* The third operand of clamp and lerp.
ThirdOperands == { Num(0), Num(Scale \div 2), Num(2 * Scale), NaN, PosInfinity }

\* The epsilon argument of the comparisons: absent, 0, 0.5 and 0.6.
EpsilonArgs ==
    { NoEpsilon, [given |-> TRUE, value |-> 0],
      [given |-> TRUE, value |-> Scale \div 2],
      [given |-> TRUE, value |-> (Scale \div 2) + 1] }

InitPrecision ==
    /\ ViewportIdle
    /\ nOps = 0
    /\ BudgetIdle
    /\ SamplerIdle
    /\ operationCount = 0
    /\ \E a \in Operands, b \in Operands, c \in ThirdOperands : pm = NoCall(a, b, c)
    /\ MarchIdle
    /\ ConfigIdle
    /\ ProofIdle
    /\ StoreIdle
    /\ TransformIdle

CountedPrecisionCall(A) ==
    /\ nOps < MaxPmCalls
    /\ nOps' = nOps + 1
    /\ UNCHANGED <<vpVars, budgetVars, samplerVars, marchVars, configVars, proofVars, storeVars, transformVars>>
    /\ A

NextPrecision ==
    \/ \E op \in UnaryOperations \cup BinaryOperations \cup TernaryOperations :
          CountedPrecisionCall(CallPrecision(op, NoEpsilon))
    \/ \E op \in CompareOperations, epsilon \in EpsilonArgs :
          CountedPrecisionCall(CallPrecision(op, epsilon))

SpecPrecision == InitPrecision /\ [][NextPrecision]_vars

----------------------------------------------------------------------------
(* PrecisionManager configured, reset and used.                            *)

ConfigOverrides ==
    { [decimalPlaces |-> 2],
      [decimalPlaces |-> 1, roundingMode |-> "ROUND_DOWN"],
      [roundingMode |-> "ROUND_DOWN"],
      [mode |-> "float64"] }

\* 1.234, 0.055, 0, -2.5
ConfigOperands == { 1234, 55, 0, -2500 }

InitConfig ==
    /\ ViewportIdle
    /\ nOps = 0
    /\ BudgetIdle
    /\ SamplerIdle
    /\ PrecisionIdle
    /\ MarchIdle
    /\ ConfigIdle
    /\ ProofIdle
    /\ StoreIdle
    /\ TransformIdle

ConfigStep(A) ==
    /\ A
    /\ UNCHANGED <<vpVars, nOps, budgetVars, samplerVars, precisionVars, marchVars,
                   proofVars, storeVars, transformVars>>

NextConfig ==
    \/ \E overrides \in ConfigOverrides : ConfigStep(Configure(overrides))
    \/ ConfigStep(ConfigReset)
    \/ \E a \in ConfigOperands, b \in ConfigOperands : ConfigStep(ConfiguredAdd(a, b))

SpecConfig == InitConfig /\ [][NextConfig]_vars

----------------------------------------------------------------------------
(* One call of proveDeterministic, for every algorithm given by what it    *)
(* does on each input at each of its calls, or of proveInvertible, for a   *)
(* transform exact but at one point.                                       *)

IterationArgs == {1, 2, 3}

\* Results that hash apart (0, 4), results that hash alike (0, 1), a throw.
AlgorithmOutcomes == { Num(0), Num(1), Num(4), Throws }

TransformOutcomes == { Num(0), Num(ProofEpsilon), Num(ProofEpsilon + 1), Throws }

InitProof ==
    /\ ViewportIdle
    /\ nOps = 0
    /\ BudgetIdle
    /\ SamplerIdle
    /\ PrecisionIdle
    /\ MarchIdle
    /\ ConfigIdle
    /\ \/ \E algorithm \in [ProofInputs \X IterationArgs -> AlgorithmOutcomes],
             n \in IterationArgs :
             proof = [routine |-> "proveDeterministic", algorithm |-> algorithm,
                      iterations |-> n, transform |-> << >>]
       \/ \E at \in {1, 50, 100}, does \in TransformOutcomes :
             proof = [routine |-> "proveInvertible", algorithm |-> << >>,
                      iterations |-> 0, transform |-> [at |-> at, does |-> does]]
    /\ prun = NoRun("run")
    /\ StoreIdle
    /\ TransformIdle

ProofStep(A) ==
    /\ A
    /\ UNCHANGED <<vpVars, nOps, budgetVars, samplerVars, precisionVars, marchVars,
                   configVars, storeVars, transformVars>>

NextProof ==
    \/ ProofStep(ProveDeterministicIterate)
    \/ ProofStep(ProveDeterministicReturn)
    \/ ProofStep(ProveInvertibleIterate)
    \/ ProofStep(ProveInvertibleReturn)

SpecProof == InitProof /\ [][NextProof]_vars

----------------------------------------------------------------------------
(* The viewport store: pan, zoom, reset and undo through useViewportStore. *)

MaxStoreCalls == 4

InitStore ==
    /\ ViewportIdle
    /\ nOps = 0
    /\ BudgetIdle
    /\ SamplerIdle
    /\ PrecisionIdle
    /\ MarchIdle
    /\ ConfigIdle
    /\ ProofIdle
    /\ store = [viewport |-> NewGraphViewport(EmptyPartial)]
    /\ stLast = StoreCall("create", "ok", DefaultViewport)
    /\ TransformIdle

StoreStep(A) ==
    /\ nOps < MaxStoreCalls
    /\ nOps' = nOps + 1
    /\ A
    /\ UNCHANGED <<vpVars, budgetVars, samplerVars, precisionVars, marchVars,
                   configVars, proofVars, transformVars>>

NextStore ==
    \/ \E d \in PanArgs : StoreStep(StorePan(d[1], d[2]))
    \/ \E f \in ZoomFactors, c \in ZoomCenters : StoreStep(StoreZoom(f, c))
    \/ StoreStep(StoreReset)
    \/ StoreStep(StoreUndo)

SpecStore == InitStore /\ [][NextStore]_vars

----------------------------------------------------------------------------
(* Linear transforms: a point taken forward and back.                      *)

\* Scale factors from 0.1 to 2.5, of both signs, and 0.
ScaleFactors == { 0, 1, Scale \div 2, Scale, 15, -15, 25 }

Offsets == { <<100 * Scale, -50 * Scale>>, <<0, 0>> }

\* Coordinates: 42.1 and 37.5, small ones, and the largest number.
Coordinates == { 421, 375, 25, -7, 0, MaxNumber }

\* The tolerance of the round trip, in quanta.
RoundTripTolerance == 2

InitTransform ==
    /\ ViewportIdle
    /\ nOps = 0
    /\ BudgetIdle
    /\ SamplerIdle
    /\ PrecisionIdle
    /\ MarchIdle
    /\ ConfigIdle
    /\ ProofIdle
    /\ StoreIdle
    /\ \E scaleX \in ScaleFactors, scaleY \in ScaleFactors, o \in Offsets,
          x \in Coordinates, y \in Coordinates :
          tr = [scale |-> [scaleX |-> Num(scaleX), scaleY |-> Num(scaleY),
                           offsetX |-> Num(o[1]), offsetY |-> Num(o[2])],
                point |-> [x |-> Num(x), y |-> Num(y)],
                forward |-> NoPoint, back |-> NoPoint, pc |-> "start"]

TransformStep(A) ==
    /\ A
    /\ UNCHANGED <<vpVars, nOps, budgetVars, samplerVars, precisionVars, marchVars,
                   configVars, proofVars, storeVars>>

NextTransform ==
    \/ TransformStep(TransformForward)
    \/ TransformStep(TransformInverse)

SpecTransform == InitTransform /\ [][NextTransform]_vars

----------------------------------------------------------------------------
(* PrecisionManager calls and counted operations while a                   *)
(* DeterministicTimeout runs.                                              *)

BudgetOperands == { Num(Scale \div 2), Num(2 * Scale), NaN }

InitPrecisionBudget ==
    /\ ViewportIdle
    /\ nOps = 0
    /\ globalCounter \in 0..MaxGlobal
    /\ registry = {}
    /\ counters = {[name |-> "timeout", value |-> 0]}
    /\ BreakerIdle
    /\ TestIdle
    /\ \E n \in 1..MaxLimit : timeout = NewTimeout(n)
    /\ tmGhost = [base |-> globalCounter, since |-> 0,
                  counterReset |-> FALSE, sinceReset |-> 0]
    /\ wallClock = 0
    /\ SamplerIdle
    /\ operationCount = 0
    /\ \E a \in BudgetOperands, b \in BudgetOperands : pm = NoCall(a, b, a)
    /\ MarchIdle
    /\ ConfigIdle
    /\ ProofIdle
    /\ StoreIdle
    /\ TransformIdle

\* A PrecisionManager call: no field of OperationCounter is written.
PbCall(op) ==
    /\ nOps < MaxPmCalls
    /\ nOps' = nOps + 1
    /\ CallPrecision(op, NoEpsilon)
    /\ UNCHANGED <<vpVars, budgetVars, samplerVars, marchVars, configVars, proofVars, storeVars, transformVars>>

\* OperationCounter.increment(), until the timeout has elapsed.
PbIncrement ==
    /\ ~HasElapsed
    /\ Increment
    /\ tmGhost' = [tmGhost EXCEPT !.since = tmGhost.since + 1,
                                  !.sinceReset = tmGhost.sinceReset + 1]
    /\ UNCHANGED <<vpVars, nOps, registry, counters, cb, cbCalls, cbLast, test,
                   timeout, wallClock, samplerVars, precisionVars, marchVars, configVars, proofVars, storeVars, transformVars>>

NextPrecisionBudget ==
    \/ \E op \in UnaryOperations \cup BinaryOperations \cup CompareOperations
                  \cup TernaryOperations : PbCall(op)
    \/ PbIncrement

SpecPrecisionBudget == InitPrecisionBudget /\ [][NextPrecisionBudget]_vars

----------------------------------------------------------------------------
(* Properties of GraphViewport                                             *)

MutatingOps == {"pan", "zoom", "setViewport", "fitToPoints", "reset", "undo"}

\* A step that is a call of op.
IsCall(op) == nOps' = nOps + 1 /\ vpLast'.op = op

Top(h) == h[Len(h)]

\* C2: undo() with at least 2 history entries restores the state recorded
\* immediately before the most recent entry, returns true and leaves the
\* history one entry shorter with the restored state on top; with 1 entry
\* or fewer it returns false and changes neither the viewport nor the
\* history.
UndoRestoresPrevious ==
    [][IsCall("undo") =>
         IF Len(history) >= 2
         THEN /\ vpLast'.ret = "true"
              /\ viewport' = history[Len(history) - 1]
              /\ Len(history') = Len(history) - 1
              /\ Top(history') = history[Len(history) - 1]
              /\ history' = SubSeq(history, 1, Len(history) - 1)
         ELSE /\ vpLast'.ret = "false"
              /\ viewport' = viewport
              /\ history' = history]_vars

\* The state after reset(); pan(1,1); pan(2,2); undo() on a default
\* viewport: the one after pan(1,1).
AfterPanOne ==
    [xMin |-> -9 * Scale, xMax |-> 11 * Scale,
     yMin |-> -9 * Scale, yMax |-> 11 * Scale, pixelRatio |-> 1]

UndoWitness ==
    /\ vpLast.op = "undo"
    /\ vpLast.ret = "true"
    /\ viewport = AfterPanOne
    /\ history = << DefaultViewport, DefaultViewport, AfterPanOne >>

InRange(v, c) ==
    /\ c.minXRange <= v.xMax - v.xMin
    /\ v.xMax - v.xMin <= c.maxXRange
    /\ c.minYRange <= v.yMax - v.yMin
    /\ v.yMax - v.yMin <= c.maxYRange

\* C3: after each call of pan, zoom, setViewport, fitToPoints, reset or
\* undo returns, the width lies in [minXRange, maxXRange] and the height in
\* [minYRange, maxYRange].
RangeAfterEveryCall ==
    (vpLast.op \in MutatingOps /\ vpLast.ret # "throw")
        => InRange(viewport, constraints)

\* C4: in every reachable state, right after construction too,
\* xMin < xMax and yMin < yMax.
BoundsOrdered ==
    viewport.xMin < viewport.xMax /\ viewport.yMin < viewport.yMax

\* What the zoom would give, in the words of the claim.
ZoomOutOfRange(v, factor, c) ==
    LET newWidth == Divide(v.xMax - v.xMin, factor)
        newHeight == Divide(v.yMax - v.yMin, factor)
    IN  \/ newWidth < c.minXRange
        \/ newHeight < c.minYRange
        \/ newWidth > c.maxXRange
        \/ newHeight > c.maxYRange
        \/ (newWidth # 0 /\ Divide(BaseWidth, newWidth) > c.maxZoomLevel)

\* C5: a zoom whose resulting width or height would leave
\* [minRange, maxRange], or whose zoom level 20/newWidth would exceed
\* maxZoomLevel, changes neither the viewport nor the history; and every
\* zoom-out that is accepted strictly widens the viewport, up to maxXRange
\* at most, so that repeated zoom-outs stop changing it.
ZoomSoftClamp ==
    [][IsCall("zoom") /\ vpLast'.factor # 0 =>
         /\ ZoomOutOfRange(viewport, vpLast'.factor, constraints)
               => (viewport' = viewport /\ history' = history)
         /\ (vpLast'.factor < Scale /\ vpLast'.ret = "ok")
               => /\ viewport'.xMax - viewport'.xMin
                        > viewport.xMax - viewport.xMin
                  /\ viewport'.xMax - viewport'.xMin <= constraints.maxXRange]_vars

\* A zoom-out refused after an accepted one widened the default window.
ZoomWitness ==
    /\ vpLast.op = "zoom"
    /\ vpLast.ret = "noop"
    /\ vpLast.factor = Scale \div 2
    /\ viewport.xMax - viewport.xMin > BaseWidth
    /\ 2 * (viewport.xMax - viewport.xMin) > constraints.maxXRange
    /\ Top(history) = viewport

\* C6: the history never holds more than 50 entries nor fewer than 1, and
\* a state recorded while 50 are held evicts the oldest and keeps the order
\* of the others.
HistoryBounded ==
    /\ [](Len(history) >= 1 /\ Len(history) <= 50)
    /\ [][(IsCall("pan") /\ Len(history) = 50)
            => history' = Append(Tail(history), viewport')]_vars

\* The history is full and its oldest entries have been evicted.
HistoryWitness ==
    /\ Len(history) = 50
    /\ history[1] # DefaultViewport
    /\ vpLast.op = "pan"

\* C23: after construction and after every mutating call that returns
\* normally and changes the state (pan, accepted zoom, setViewport,
\* fitToPoints on points, reset, successful undo) the last history entry
\* is the current viewport; each such call other than undo appends exactly
\* one entry, and fitToPoints on no points appends none.
HistoryTracksCurrent ==
    /\ [](vpLast.ret \in {"ok", "true"} => Top(history) = viewport)
    /\ [][nOps' = nOps + 1 =>
            /\ vpLast'.ret = "ok" =>
                  history' = Append(IF Len(history) = maxHistorySize
                                    THEN Tail(history) ELSE history, viewport')
            /\ (vpLast'.op = "fitToPoints" /\ vpLast'.ret = "noop") =>
                  history' = history]_vars

\* A pan that returned after a pan that threw half-way: the entry it
\* appended is the current viewport, and the one below is not.
HistoryTracksWitness ==
    /\ vpLast.op = "pan"
    /\ vpLast.ret = "ok"
    /\ Len(history) = 2
    /\ Top(history) = viewport
    /\ viewport.xMin - history[1].xMin = 2 * Scale
    /\ viewport.yMin - history[1].yMin = 1 * Scale

\* C27: a mutating call that throws a DeterminismError leaves the viewport
\* and the history as they were before the call.
ThrowLeavesState ==
    [][(nOps' = nOps + 1 /\ vpLast'.ret = "throw")
          => (viewport' = viewport /\ history' = history)]_vars

----------------------------------------------------------------------------
(* Properties of the operation-budget classes                              *)

\* C7: the k-th execute call since construction or reset() invokes fn iff
\* k <= maxOperations; beyond that it does not invoke fn and either returns
\* the fallback or throws a CircuitBreakerError whose context carries the
\* breaker name, maxOperations and actualOperations = k.
BreakerBudget ==
    cbLast.op = "execute" =>
        /\ cbLast.invoked <=> cbCalls <= cb.maxOperations
        /\ cbCalls > cb.maxOperations =>
              IF cbLast.hasFallback
              THEN cbLast.outcome = "fallback"
              ELSE /\ cbLast.outcome = "CircuitBreakerError"
                   /\ cbLast.context = [breaker |-> "breaker",
                                        maxOperations |-> cb.maxOperations,
                                        actualOperations |-> cbCalls]

\* A call past the budget that throws, two calls after the budget ran out.
BreakerBudgetWitness ==
    /\ cbLast.op = "execute"
    /\ cbLast.outcome = "CircuitBreakerError"
    /\ cb.maxOperations >= 2
    /\ cbCalls = cb.maxOperations + 2

\* C8: once tripped, getTripped() stays true across execute calls and
\* becomes false only through reset(), which also sets the operation count
\* back to 0.
TripLatched ==
    [][/\ (GetTripped /\ ~GetTripped') => cbLast'.op = "reset"
       /\ (nOps' = nOps + 1 /\ cbLast'.op = "reset")
             => (~GetTripped' /\ cb'.operationCount = 0)]_vars

\* Tripped by a throwing fn, and a later execute returned normally.
TripLatchedWitness ==
    /\ GetTripped
    /\ cbLast.op = "execute"
    /\ cbLast.outcome = "returned"

\* C28: a tripped CircuitBreaker never invokes fn: every execute call made
\* while getTripped() is true, before reset(), skips fn.
NoCallWhileTripped ==
    [][(nOps' = nOps + 1 /\ cbLast'.op = "execute" /\ GetTripped)
          => ~cbLast'.invoked]_vars

\* C9: the two runs of the same execute calls, each after
\* OperationCounter.reset() and a fresh registration, count the same
\* number of trips.
TripCountStable ==
    test.pc = "done" => test.trips[1] = test.trips[2]

\* Both runs done: 150 calls on a budget of 100 tripped 50 times each.
TripCountWitness ==
    /\ test.pc = "done"
    /\ test.period = 0
    /\ test.trips = <<50, 50>>

\* C10 as stated: hasElapsed() is true exactly when at least maxOperations
\* operations have been counted since the timeout was constructed (or
\* reset).
ElapsedIffCounted ==
    HasElapsed <=> tmGhost.since >= timeout.maxOperations

\* C10 amended: that holds as long as OperationCounter.reset() has not
\* been called since; after it the counter restarts from 0 against the
\* unchanged limit, so base + maxOperations operations must be counted
\* anew.  The wall clock plays no part.
ElapsedIffCountedSinceReset ==
    HasElapsed <=>
        IF tmGhost.counterReset
        THEN tmGhost.sinceReset >= tmGhost.base + timeout.maxOperations
        ELSE tmGhost.since >= timeout.maxOperations

\* The timeout elapses on the very operation that completes its budget,
\* from a non-zero baseline, while the clock has moved.
ElapsedWitness ==
    /\ HasElapsed
    /\ timeout.maxOperations > 0
    /\ tmGhost.base > 0
    /\ ~tmGhost.counterReset
    /\ tmGhost.since = timeout.maxOperations
    /\ wallClock > 0

----------------------------------------------------------------------------
(* Properties of PrecisionManager                                          *)

\* C11: every call of a PrecisionManager operation increments the global
\* operation counter of OperationCounter, the one DeterministicTimeout
\* reads, so that the call brings a running timeout nearer to elapsing.
PrecisionCallsCounted ==
    [][operationCount' > operationCount
          => /\ globalCounter' > globalCounter
             /\ timeout.operationLimit - globalCounter'
                   < timeout.operationLimit - globalCounter]_vars

\* The last call was a comparison of two finite numbers.
ComparedFinite ==
    pm.op \in CompareOperations /\ IsFinite(pm.a) /\ IsFinite(pm.b)

OperandsOf(call) ==
    IF call.op \in UnaryOperations THEN {call.a}
    ELSE IF call.op \in TernaryOperations THEN {call.a, call.b, call.c}
    ELSE {call.a, call.b}

\* The cases in which an operation is to throw.
MustThrow(call) ==
    \/ \E v \in OperandsOf(call) : ~IsFinite(v)
    \/ /\ \A v \in OperandsOf(call) : IsFinite(v)
       /\ \/ call.op = "divide" /\ Abs(call.b.y) < Epsilon
          \/ call.op = "sqrt" /\ call.a.y < 0
          \/ call.op \in {"ln", "log"} /\ call.a.y <= 0
          \/ call.op = "add" /\ Abs(call.a.y + call.b.y) > MaxNumber
          \/ call.op = "subtract" /\ Abs(call.a.y - call.b.y) > MaxNumber
          \/ call.op = "multiply" /\ Abs(call.a.y * call.b.y) > MaxNumber * Scale
          \/ /\ call.op = "divide" /\ call.b.y # 0
             /\ Abs(call.a.y) * Scale > MaxNumber * Abs(call.b.y)

\* C13: an operation throws a DeterminismError, and returns no value, when
\* an operand is NaN or +/-Infinity, when its result would not be finite,
\* on divide with |divisor| < epsilon, sqrt of a negative value and ln or
\* log of a non-positive value.
ThrowsOnInvalid ==
    (pm.op # "" /\ MustThrow(pm)) => pm.threw

----------------------------------------------------------------------------
(* Properties of AdaptiveSampler                                           *)

\* C1: the array returned by sample has at most maxPoints elements
\* (maxPoints = per-call option, else constructor option, else 10000).
PointCountBound ==
    spc = "done" => Len(points) <= LocalMaxPoints

\* The interval on top of the stack, and what fn does at its ends and
\* middle.
TopInterval == stack[Len(stack)]

TopHasInvalid ==
    \E x \in {TopInterval[1], TopInterval[2], Midpoint(TopInterval[1], TopInterval[2])} :
        smp.fn[x].kind # "value"

\* The samples at the two ends of the top interval that are valid.
ValidEndpointSamples ==
    SelectSeq(<< [x |-> TopInterval[1], y |-> smp.fn[TopInterval[1]]],
                 [x |-> TopInterval[2], y |-> smp.fn[TopInterval[2]]] >>,
              LAMBDA p : p.y.kind = "value")

\* C14: whatever fn does at the points it is evaluated at (throw, return
\* NaN or +/-Infinity), no exception escapes sample(), and an interval
\* with an invalid fn(a), fn(b) or fn(mid) is not subdivided: it leaves
\* the stack and its valid endpoint samples are added.
FaultsContained ==
    /\ [](spc # "threw")
    /\ [][(spc = "loop" /\ spc' = "loop" /\ iterations' = iterations + 1
             /\ TopInterval[3] < LocalMaxDepth /\ TopHasInvalid)
            => /\ stack' = SubSeq(stack, 1, Len(stack) - 1)
               /\ points' = points \o ValidEndpointSamples]_vars

\* C15: every point of the returned array has a finite y, which is fn at
\* its x: the positions where fn throws or is not finite are left out.
FinitePoints ==
    spc = "done" =>
        \A i \in 1..Len(points) :
            /\ points[i].y.kind = "value"
            /\ points[i].y = smp.fn[points[i].x]

\* fn has a pole in the middle of the domain and throws at its start: the
\* call returned the sample at the end of the domain only.
FinitePointsWitness ==
    /\ spc = "done"
    /\ smp.domain = <<0, DomainEnd>>
    /\ smp.fn[0] = Throws
    /\ smp.fn[2 * GridStep] = PosInfinity
    /\ points = << [x |-> DomainEnd, y |-> Num(0)] >>

\* C16: consecutive points p, q of the returned array satisfy
\* compare(p.x, q.x) <= 0.
SortedOutput ==
    spc = "done" =>
        \A i \in 1..(Len(points) - 1) : Compare(points[i].x, points[i + 1].x) <= 0

\* The domain was given with its ends swapped, so that the points were
\* pushed from right to left: four are returned, from left to right.
SortedOutputWitness ==
    /\ spc = "done"
    /\ smp.domain = <<DomainEnd, 0>>
    /\ Len(points) = 4
    /\ points[1].x = 0
    /\ points[4].x = DomainEnd

\* C17: a call of sample() returns what the calls before it, with the same
\* fn, domain and options, returned, whatever the global counter was at
\* the start of each and whatever was counted in between.
SampleRepeatable ==
    spc = "done" => \A i \in 1..Len(earlier) : earlier[i] = points

\* The second call has returned, its budget exhausted as in the first,
\* from another value of the global counter.
SampleRepeatableWitness ==
    /\ spc = "done"
    /\ Len(earlier) = 1
    /\ nOps > 0
    /\ timeout.startCount # iterations
    /\ iterations = LocalMaxOperations
    /\ Len(points) >= 2

\* pts is non-decreasing in x.
IsSortedByX(pts) ==
    \A i \in 1..(Len(pts) - 1) : Compare(pts[i].x, pts[i + 1].x) <= 0

\* C18: the loop of sample() begins at most maxOperations iterations,
\* the call comes to its end, and when the budget is exhausted it returns
\* the points collected so far, sorted, and raises no error.
SampleTerminates ==
    /\ [](iterations <= LocalMaxOperations)
    /\ [][spc = "sort"
            => /\ spc' = "done"
               /\ IsSortedByX(points')
               /\ Len(points') = Len(points)
               /\ {points'[i] : i \in 1..Len(points')}
                     = {points[i] : i \in 1..Len(points)}]_vars
    /\ <>(spc = "done")

\* The budget ran out with intervals left on the stack, and the points
\* collected until then were returned.
SampleTerminatesWitness ==
    /\ spc = "done"
    /\ iterations = LocalMaxOperations
    /\ Len(stack) > 0
    /\ Len(points) >= 2

----------------------------------------------------------------------------
(* Properties of marchingSquares                                           *)

\* The polylines of the first n cells of the row-major scan.
RECURSIVE EmittedBy(_)
EmittedBy(n) ==
    IF n = 0 THEN << >>
    ELSE LET poly == CellPoly((n - 1) % Cols, (n - 1) \div Cols)
         IN  IF Len(poly) >= 2 THEN Append(EmittedBy(n - 1), poly)
             ELSE EmittedBy(n - 1)

\* C19: marchingSquares returns at most maxSegments polylines (10000
\* unless the option is given): the scan stops as soon as that many are
\* emitted, and the polylines are those of the cells scanned so far, in
\* row-major order.
SegmentsBounded ==
    mpc \in {"scan", "done"} =>
        /\ Len(segments) <= MaxSegments
        /\ Len(segments) >= MaxSegments => mpc = "done"
        /\ segments = EmittedBy(cell)

\* The scan stopped on the second polyline, before the last cell, which
\* has a polyline too.
SegmentsBoundedWitness ==
    /\ mpc = "done"
    /\ ms.options.maxSegments = 2
    /\ Len(segments) = 2
    /\ cell < Rows * Cols
    /\ Len(EmittedBy(Rows * Cols)) > 2

\* The cell scanned last, and whether it is a saddle (index 5 or 10) with
\* four finite corners.
LastI == (cell - 1) % Cols

LastJ == (cell - 1) \div Cols

LastIsSaddle ==
    /\ mpc \in {"scan", "done"}
    /\ cell > 0
    /\ CellIndex(LastI, LastJ) \in {5, 10}
    /\ \A n \in {<<LastI, LastJ>>, <<LastI + 1, LastJ>>, <<LastI + 1, LastJ + 1>>,
                  <<LastI, LastJ + 1>>} : IsFinite(Grid(n[1], n[2]))

\* The crossing on an edge of the cell scanned last.
LastCrossing(edge) ==
    LET p == SampleEdge(LastI, LastJ, edge) IN [x |-> p.x, y |-> p.y]

\* p and q are consecutive points of the polyline.
Joined(poly, p, q) ==
    \E k \in 1..(Len(poly) - 1) : {poly[k], poly[k + 1]} = {p, q}

\* C20 as stated: the polyline emitted for a saddle cell with four finite
\* corners joins the crossing on the left edge to the one on the right
\* edge, and the one on the top edge to the one on the bottom edge.
SaddleJoinsOpposite ==
    LastIsSaddle =>
        /\ segments # << >>
        /\ Joined(segments[Len(segments)], LastCrossing(0), LastCrossing(2))
        /\ Joined(segments[Len(segments)], LastCrossing(1), LastCrossing(3))

\* C20 amended: the cell emits one polyline of its four crossings in the
\* order of the table, left, top, right, bottom: left is joined to top,
\* top to right and right to bottom, and neither left to right nor top to
\* bottom.
SaddleJoinsInTableOrder ==
    LastIsSaddle =>
        /\ segments # << >>
        /\ segments[Len(segments)]
              = << LastCrossing(0), LastCrossing(1), LastCrossing(2), LastCrossing(3) >>
        /\ ~Joined(segments[Len(segments)], LastCrossing(0), LastCrossing(2))
        /\ ~Joined(segments[Len(segments)], LastCrossing(1), LastCrossing(3))

\* The first cell is a saddle of index 5 and its polyline is emitted.
SaddleWitness ==
    /\ LastIsSaddle
    /\ cell = 1
    /\ CellIndex(0, 0) = 5
    /\ Len(segments) = 1
    /\ Len(segments[1]) = 4

\* About the cell scanned last: the edges its case lists, whether the
\* classification of the corners changes along an edge, whether a crossing
\* is computed on it, and whether that crossing lies between its ends.
LastListed == LET edges == EdgeTable[CellIndex(LastI, LastJ) + 1]
              IN  {edges[k] : k \in 1..Len(edges)}

Changes(edge) ==
    Bit(EdgeEnds(LastI, LastJ, edge).v1) # Bit(EdgeEnds(LastI, LastJ, edge).v2)

EndsFinite(edge) ==
    /\ IsFinite(EdgeEnds(LastI, LastJ, edge).v1)
    /\ IsFinite(EdgeEnds(LastI, LastJ, edge).v2)

Computed(edge) == edge \in LastListed /\ SampleEdge(LastI, LastJ, edge).found

Between(a, m, b) == (a <= m /\ m <= b) \/ (b <= m /\ m <= a)

OnEdge(edge) ==
    LET e == EdgeEnds(LastI, LastJ, edge)
        p == SampleEdge(LastI, LastJ, edge)
    IN  Between(e.x1, p.x, e.x2) /\ Between(e.y1, p.y, e.y2)

Scanned == mpc \in {"scan", "done"} /\ cell > 0

\* C25 as stated: the case of a cell lists exactly the edges along which
\* the classification of the corners changes (a corner that is not finite
\* counting as below), a crossing is computed on an edge iff the
\* classification changes along it, and every crossing lies on its edge
\* between the two corners.
CrossingIffChange ==
    Scanned => \A edge \in 0..3 :
        /\ edge \in LastListed <=> Changes(edge)
        /\ Computed(edge) <=> Changes(edge)
        /\ Computed(edge) => OnEdge(edge)

\* C25 amended: a crossing is computed on an edge iff the classification
\* changes along it and both its end corners are finite; an edge with an
\* end that is not finite gets no crossing although its case lists it.
CrossingIffFiniteChange ==
    Scanned => \A edge \in 0..3 :
        /\ edge \in LastListed <=> Changes(edge)
        /\ Computed(edge) <=> (Changes(edge) /\ EndsFinite(edge))
        /\ Computed(edge) => OnEdge(edge)

\* The first cell has its lower left corner above iso and its lower right
\* one not finite: the case lists left and bottom, only left is crossed
\* and the cell emits nothing.
CrossingWitness ==
    /\ mpc = "scan"
    /\ cell = 1
    /\ CellIndex(0, 0) = 1
    /\ ~IsFinite(Grid(1, 0))
    /\ IsFinite(Grid(0, 1))
    /\ Computed(0)
    /\ ~Computed(3)
    /\ segments = << >>

----------------------------------------------------------------------------
(* The intervals of sample()                                               *)

\* The intervals on the stack and those closed, as pairs of ends.
Intervals ==
    [k \in 1..Len(stack) |-> <<stack[k][1], stack[k][2]>>] \o leaves

DomainLow == IF smp.domain[1] <= smp.domain[2] THEN smp.domain[1] ELSE smp.domain[2]

DomainHigh == IF smp.domain[1] <= smp.domain[2] THEN smp.domain[2] ELSE smp.domain[1]

\* The interval covers the quantum [q, q + 1].
Covers(interval, q) ==
    \/ interval[1] <= q /\ q + 1 <= interval[2]
    \/ interval[2] <= q /\ q + 1 <= interval[1]

\* Every quantum of the domain lies in exactly one interval, and no
\* interval reaches outside the domain.
Tiling ==
    /\ \A q \in DomainLow..(DomainHigh - 1) :
          Cardinality({k \in 1..Len(Intervals) : Covers(Intervals[k], q)}) = 1
    /\ \A k \in 1..Len(Intervals) :
          /\ DomainLow <= Intervals[k][1] /\ Intervals[k][1] <= DomainHigh
          /\ DomainLow <= Intervals[k][2] /\ Intervals[k][2] <= DomainHigh

\* C30: during sample() the intervals on the stack and those closed tile
\* the domain without gap or overlap, and every interval on the stack has
\* a depth of maxDepth at most; so when the loop ends with an empty stack
\* the closed intervals cover the domain, and each end of the domain where
\* fn is finite is among the points.
IntervalsTileDomain ==
    spc \in {"loop", "sort", "done", "threw"} =>
        /\ Tiling
        /\ \A k \in 1..Len(stack) : stack[k][3] <= LocalMaxDepth
        /\ (spc = "done" /\ stack = << >>) =>
              \A k \in 1..2 :
                  IsValid(smp.fn[smp.domain[k]]) =>
                      \E n \in 1..Len(points) : points[n].x = smp.domain[k]

\* sample() returned with an empty stack after refining down to maxDepth
\* on one side: three closed intervals at least, both ends sampled.
IntervalsTileWitness ==
    /\ spc = "done"
    /\ stack = << >>
    /\ Len(leaves) >= 3
    /\ \E k \in 1..Len(leaves) : Abs(leaves[k][2] - leaves[k][1]) = GridStep
    /\ \E n \in 1..Len(points) : points[n].x = smp.domain[1]
    /\ \E n \in 1..Len(points) : points[n].x = smp.domain[2]

----------------------------------------------------------------------------
(* Properties of the configuration of PrecisionManager                     *)

\* C29: after configure(overrides) and then reset(), the configuration and
\* the settings of Decimal derived from it (working precision, rounding
\* mode) are those of start-up, so every operation gives the result it
\* gave before configure.
ResetRestoresStartup ==
    pcLast.op = "reset" =>
        /\ pmConfig = DefaultConfig
        /\ decimal = DecimalAtStartup
        /\ \A a \in ConfigOperands, b \in ConfigOperands :
              AddUnder(pmConfig, decimal, a, b)
                  = AddUnder(DefaultConfig, DecimalAtStartup, a, b)

----------------------------------------------------------------------------
(* Properties of NumericalProofSystem                                      *)

\* C21: a routine of the proof system reports a failure as a returned
\* result {success: false, ...} and never throws, also when the
\* transform or the algorithm under test throws.
ProofNeverThrows == prun.pc # "threw"

\* The algorithm never throws and gives, on each input, the same result at
\* every call.
IsPure(algorithm) ==
    \A input \in ProofInputs, k \in IterationArgs :
        /\ algorithm[<<input, k>>] # Throws
        /\ algorithm[<<input, k>>] = algorithm[<<input, 1>>]

\* The algorithm gives, on some input, two results at two calls.
OutputChanges(algorithm) ==
    \E input \in ProofInputs, k \in IterationArgs :
        /\ algorithm[<<input, k>>] # Throws
        /\ algorithm[<<input, 1>>] # Throws
        /\ algorithm[<<input, k>>] # algorithm[<<input, 1>>]

\* C24: proveDeterministic returns success = true for every algorithm that
\* is a pure function of its input, and success = false for one whose
\* output changes between calls on the same input.
DeterminismDecided ==
    (proof.routine = "proveDeterministic" /\ prun.pc = "returned") =>
        /\ IsPure(proof.algorithm) => prun.result.success
        /\ OutputChanges(proof.algorithm) => ~prun.result.success

\* C26: after a pan or zoom through the viewport store that changed the
\* viewport, the store's undo restores the viewport that was current before
\* that pan or zoom.
StoreUndoRestores ==
    [][(/\ stLast.op \in {"pan", "zoom"}
        /\ stLast.ret = "ok"
        /\ nOps' = nOps + 1
        /\ stLast'.op = "undo")
       => store'.viewport.viewport = stLast.before]_vars

\* The scale factors of the transform are not near zero: inverse's divisions
\* do not refuse them.
ScaleNotNearZero ==
    /\ ~DivideThrows(tr.scale.scaleX.y)
    /\ ~DivideThrows(tr.scale.scaleY.y)

\* Neither scale factor shrinks: each is 1 or more in absolute value.
ScaleAtLeastOne ==
    /\ Abs(tr.scale.scaleX.y) >= Scale
    /\ Abs(tr.scale.scaleY.y) >= Scale

\* The point inverse returned is the point forward was given, within the
\* tolerance.
BackIsPoint ==
    /\ ~tr.back.threw
    /\ Abs(tr.back.x.y - tr.point.x.y) <= RoundTripTolerance
    /\ Abs(tr.back.y.y - tr.point.y.y) <= RoundTripTolerance

====
